---- MODULE Spec2Model ----
(***************************************************************************)
(* State-machine model of the tcg-pocket-rl game engine                    *)
(* (engine/src/game/{state,actions,engine,rng}.rs, effects/executor.rs).   *)
(* Indices are 0-based as in the Rust code; TLA+ sequences are 1-based, so *)
(* element i of a Vec v is v[i + 1].  Option<T> is a sequence of length    *)
(* 0 (None) or 1 (Some).                                                   *)
(***************************************************************************)
EXTENDS Integers, Sequences, FiniteSets, TLC

VARIABLES players, current_player, turn_number, phase, winner, first_turn,
          pending_choice, deferred_turn_end, rng, result, bt_runs, dealt

vars == <<players, current_player, turn_number, phase, winner, first_turn,
          pending_choice, deferred_turn_end, rng, result, bt_runs, dealt>>

-----------------------------------------------------------------------------
(* Program constants (game/state.rs).                                      *)
MAX_BENCH == 3
PRIZE_COUNT == 3
STARTING_HAND == 5
\* data/deck.rs
DECK_SIZE == 20
\* bridge/action_map.rs
ACTION_SPACE_SIZE == 512

(* Bounds of the model.                                                    *)
\* number of seeds new_game is started with: 0 .. NumSeeds - 1
NumSeeds == 2
\* number of deck pairs the games start from: Scenario(1) .. Scenario(NumScenarios)
NumScenarios == 14
\* hand indices, board positions, bench indices and attack indices an action
\* may carry: 0 .. MaxIndex
MaxIndex == 5
\* number of energy costs the Duelists are made with: Duelist(1) ..
\* Duelist(NumCosts)
NumCosts == 12
\* number of full-size decks new_game is started with: SetupDeck(1) ..
\* SetupDeck(NumSetupDecks)
NumSetupDecks == 6
\* number of seeds the full-size games are started with: 0 .. NumSetupSeeds - 1
NumSetupSeeds == 16

-----------------------------------------------------------------------------
(* Option<T>                                                               *)
None == <<>>
Some(x) == <<x>>
IsSome(o) == o # <<>>
IsNone(o) == o = <<>>
Unwrap(o) == o[1]

Min(a, b) == IF a < b THEN a ELSE b
\* u32::saturating_sub

\* Vec::remove(i) with a 0-based index
RemoveAt(seq, i) == SubSeq(seq, 1, i) \o SubSeq(seq, i + 2, Len(seq))
\* Vec::pop() drops the last element, if any
Pop(seq) == IF seq = <<>> THEN seq ELSE SubSeq(seq, 1, Len(seq) - 1)
\* Vec::contains
Contains(seq, x) == \E i \in 1..Len(seq) : seq[i] = x
\* Vec::retain
RECURSIVE Retain(_, _)
Retain(seq, keep) ==
    IF seq = <<>> THEN <<>>
    ELSE (IF Head(seq) \in keep THEN <<Head(seq)>> ELSE <<>>) \o Retain(Tail(seq), keep)

-----------------------------------------------------------------------------
(* Cards (data/card.rs).  The card database is an input of the engine; the *)
(* model plays with the small pool below.                                  *)
ConcreteTypes ==
    {"Grass", "Fire", "Water", "Lightning", "Psychic", "Fighting", "Darkness", "Metal", "Dragon"}

Statuses == {"Poisoned", "Burned", "Asleep", "Paralyzed", "Confused"}

Pokemon(name, hp, stage, etype, weak, retreat, attacks, ability, from, ex) ==
    [id |-> name, name |-> name, card_type |-> "Pokemon", hp |-> Some(hp), stage |-> Some(stage),
     energy_type |-> Some(etype), weakness |-> weak, retreat_cost |-> Some(retreat),
     attacks |-> attacks, ability |-> ability, evolves_from |-> from, is_ex |-> ex]

Trainer(name, type) ==
    [id |-> name, name |-> name, card_type |-> type, hp |-> None, stage |-> None,
     energy_type |-> None, weakness |-> None, retreat_cost |-> None,
     attacks |-> <<>>, ability |-> None, evolves_from |-> None, is_ex |-> FALSE]

Atk(cost, dmg, effect) == [energy_cost |-> cost, damage |-> dmg, effect |-> effect]

\* the card database: the cards the games of this model are played with
Card(id) ==
    CASE id = "Pawn"    -> Pokemon("Pawn", 10, "Basic", "Fire", None, 1,
                                   <<Atk(<<>>, 10, "")>>, None, None, FALSE)
      [] id = "King"    -> Pokemon("King", 10, "Basic", "Fire", None, 1,
                                   <<Atk(<<>>, 10, "")>>, None, None, TRUE)
      [] id = "Rook"    -> Pokemon("Rook", 20, "Basic", "Fire", None, 1,
                                   <<Atk(<<>>, 10, "")>>, None, None, FALSE)
      [] id = "Knight"  -> Pokemon("Knight", 20, "Stage1", "Fire", None, 1,
                                   <<Atk(<<>>, 20, "")>>, None, Some("Pawn"), FALSE)
      [] id = "Bishop"  -> Pokemon("Bishop", 10, "Basic", "Psychic", None, 1,
                                   <<Atk(<<>>, 10, "")>>, Some("self10"), None, FALSE)
      [] id = "Queen"   -> Pokemon("Queen", 10, "Basic", "Psychic", None, 1,
                                   <<Atk(<<>>, 10, "")>>, Some("self10"), None, TRUE)
      \* five attacks without damage, one for each status condition
      [] id = "Jester"  -> Pokemon("Jester", 30, "Basic", "Psychic", None, 1,
                                   <<Atk(<<>>, 0, "is now poisoned"), Atk(<<>>, 0, "is now burned"),
                                     Atk(<<>>, 0, "is now asleep"), Atk(<<>>, 0, "is now paralyzed"),
                                     Atk(<<>>, 0, "is now confused")>>,
                                   None, None, FALSE)
      \* never playable here: nothing it evolves from is in any deck
      [] id = "Raichu"  -> Pokemon("Raichu", 90, "Stage1", "Lightning", None, 1,
                                   <<Atk(<<"Lightning">>, 40, "")>>, None, Some("Pikachu"), FALSE)
      \* a plain attack and one that does nothing on tails
      [] id = "Charmander" -> Pokemon("Charmander", 60, "Basic", "Fire", None, 1,
                                      <<Atk(<<>>, 30, ""),
                                        Atk(<<>>, 30, "flip a coin, does nothing")>>,
                                      None, None, FALSE)
      [] id = "Charmeleon" -> Pokemon("Charmeleon", 90, "Stage1", "Fire", None, 1,
                                      <<Atk(<<>>, 30, "")>>, None, Some("Charmander"), FALSE)
      \* one attack that poisons and one that pins the Defending Pokemon
      [] id = "Ekans"      -> Pokemon("Ekans", 60, "Basic", "Darkness", None, 1,
                                      <<Atk(<<>>, 10, "is now poisoned"),
                                        Atk(<<>>, 10, "can't retreat")>>,
                                      None, None, FALSE)
      [] id = "Bulbasaur"  -> Pokemon("Bulbasaur", 60, "Basic", "Grass", Some("Fire"), 1,
                                      <<Atk(<<>>, 10, "")>>, None, None, FALSE)
      [] id = "Heavy Helmet"    -> Trainer("Heavy Helmet", "Tool")
      [] id = "Leftovers"       -> Trainer("Leftovers", "Tool")
      [] id = "Lum Berry"       -> Trainer("Lum Berry", "Tool")
      [] id = "Beastite"        -> Trainer("Beastite", "Tool")
      [] id = "Eevee Bag"       -> Trainer("Eevee Bag", "Item")
      [] id = "Beast Wall"      -> Trainer("Beast Wall", "Item")
      [] id = "Will"            -> Trainer("Will", "Supporter")
      [] id = "Poison Barb"     -> Trainer("Poison Barb", "Tool")
      [] id = "Rocky Helmet"    -> Trainer("Rocky Helmet", "Tool")
      [] id = "Electrical Cord" -> Trainer("Electrical Cord", "Tool")
      [] id = "Potion"          -> Trainer("Potion", "Item")
      [] id = "Koga"            -> Trainer("Koga", "Supporter")
      [] id = "Kiawe"           -> Trainer("Kiawe", "Supporter")

is_pokemon(c) == c.card_type = "Pokemon"
is_basic_pokemon(c) == is_pokemon(c) /\ c.stage = Some("Basic")
is_evolution(c) == is_pokemon(c) /\ c.stage \in {Some("Stage1"), Some("Stage2")}

\* specific costs matched without taking the energy that pays them
RECURSIVE PaySpecific_reuse(_, _)
PaySpecific_reuse(cost, attached) ==
    IF cost = <<>> THEN Some(attached)
    ELSE IF Head(cost) = "Colorless" \/ Contains(attached, Head(cost))
         THEN PaySpecific_reuse(Tail(cost), attached)
         ELSE None

\* Card::can_use_attack: specific costs are matched first, one attached energy
\* each; what is left must cover the Colorless entries.
RECURSIVE PaySpecific(_, _)
PaySpecific(cost, attached) ==
    IF cost = <<>> THEN Some(attached)
    ELSE IF Head(cost) = "Colorless" THEN PaySpecific(Tail(cost), attached)
    ELSE IF Contains(attached, Head(cost))
         THEN LET pos == CHOOSE i \in 1..Len(attached) :
                            /\ attached[i] = Head(cost)
                            /\ \A j \in 1..(i - 1) : attached[j] # Head(cost)
              IN PaySpecific(Tail(cost), RemoveAt(attached, pos - 1))
         ELSE None

can_use_attack(c, attack_idx, attached) ==
    IF attack_idx >= Len(c.attacks) THEN FALSE
    ELSE LET cost == c.attacks[attack_idx + 1].energy_cost
             remaining == PaySpecific(cost, attached)
             colorless_needed == Cardinality({i \in 1..Len(cost) : cost[i] = "Colorless"})
         IN IsSome(remaining) /\ Len(Unwrap(remaining)) >= colorless_needed

-----------------------------------------------------------------------------
(* Effect registry (effects/registry.rs).  Mechanics are records tagged by *)
(* kind.  Attack and ability effects are what parse_effect_text returns    *)
(* for the card's effect text; trainer and tool effects are looked up by   *)
(* card name.                                                              *)
Mechanic(kind) ==
    [kind |-> kind, amount |-> 0, count |-> 0, status |-> "", target |-> "",
     to |-> "", cond |-> "", energy |-> None]
MechAmt(kind, n) == [Mechanic(kind) EXCEPT !.amount = n]
MechTgt(kind, n, tgt) == [Mechanic(kind) EXCEPT !.amount = n, !.target = tgt]
MechStatus(kind, st, tgt) == [Mechanic(kind) EXCEPT !.status = st, !.target = tgt]

\* "self10" stands for an effect text with "10 damage to itself", "is now
\* poisoned" for one that says the opponent's Active "is now Poisoned", ...
parse_effect_text(text) ==
    CASE text = "self10" -> <<MechAmt("SelfDamage", 10)>>
      [] text = "flip a coin, does nothing" -> <<Mechanic("NoDamageOnTails")>>
      [] text = "is now poisoned" -> <<MechStatus("ApplyStatus", "Poisoned", "OpponentActive")>>
      [] text = "is now burned" -> <<MechStatus("ApplyStatus", "Burned", "OpponentActive")>>
      [] text = "is now asleep" -> <<MechStatus("ApplyStatus", "Asleep", "OpponentActive")>>
      [] text = "is now paralyzed" -> <<MechStatus("ApplyStatus", "Paralyzed", "OpponentActive")>>
      [] text = "is now confused" -> <<MechStatus("ApplyStatus", "Confused", "OpponentActive")>>
      [] text = "can't retreat" -> <<Mechanic("CantRetreat")>>
      [] OTHER -> <<>>

\* The registry is filled from the cards' effect texts (register_cards), so a
\* lookup by card id gives what parse_effect_text makes of that card's text.
get_attack_effects(card, attack_idx) ==
    IF attack_idx < Len(card.attacks)
    THEN parse_effect_text(card.attacks[attack_idx + 1].effect)
    ELSE <<>>

get_ability_effects(card) ==
    IF IsSome(card.ability) THEN parse_effect_text(Unwrap(card.ability)) ELSE <<>>

get_trainer_effects(card_id) ==
    CASE card_id = "Potion" -> <<MechTgt("Heal", 20, "ChooseOwn")>>
      [] card_id = "Eevee Bag"  -> <<MechAmt("DamageBoost", 10)>>
      [] card_id = "Beast Wall" -> <<MechAmt("DamageReduction", 20)>>
      [] card_id = "Will"       -> <<Mechanic("GuaranteedHeads")>>
      [] card_id = "Koga"   -> <<MechTgt("BounceToHand", 0, "OwnActive")>>
      [] card_id = "Kiawe"  -> <<[Mechanic("AttachEnergyFromZone") EXCEPT
                                     !.energy = Some("Fire"), !.count = 2,
                                     !.target = "ChooseOwn"],
                                 Mechanic("EndTurn")>>
      [] OTHER -> <<>>

get_tool_effects(card_id) ==
    CASE card_id = "Rocky Helmet"    -> <<MechAmt("RetaliationDamage", 20)>>
      [] card_id = "Poison Barb"     -> <<MechStatus("RetaliationStatus", "Poisoned", "")>>
      [] card_id = "Electrical Cord" -> <<[Mechanic("OnKOMoveEnergy") EXCEPT !.count = 2]>>
      [] card_id = "Heavy Helmet"    -> <<MechAmt("PassiveDamageReduction", 20)>>
      [] card_id = "Beastite"        -> <<MechAmt("DamageBoostPerPoint", 10)>>
      [] card_id = "Leftovers"       -> <<MechAmt("HealBetweenTurns", 10)>>
      [] card_id = "Lum Berry"       -> <<Mechanic("CureStatusBetweenTurns")>>
      [] OTHER -> <<>>

-----------------------------------------------------------------------------
(* Seeded random source (game/rng.rs).  StdRng is a library generator; it  *)
(* is modelled by a small full-period linear congruential generator, so    *)
(* that every outcome is a function of the seed and of the calls made.     *)
GameRng_new(seed) == [x |-> seed % 16, guaranteed_heads |-> FALSE]

StdRngNext(x) == (5 * x + 3) % 16

\* coin_flip: [rng, v], v = TRUE for heads
coin_flip(g) ==
    IF g.guaranteed_heads
    THEN [rng |-> [g EXCEPT !.guaranteed_heads = FALSE], v |-> TRUE]
    ELSE [rng |-> [g EXCEPT !.x = StdRngNext(g.x)], v |-> StdRngNext(g.x) >= 8]

set_guaranteed_heads(g, value) == [g EXCEPT !.guaranteed_heads = value]

\* gen_range(min, max): [rng, v], v in [min, max)
gen_range(g, min, max) ==
    IF min >= max THEN [rng |-> g, v |-> min]
    ELSE [rng |-> [g EXCEPT !.x = StdRngNext(g.x)],
          v |-> min + (StdRngNext(g.x) % (max - min))]

Swap(seq, i, j) == [seq EXCEPT ![i + 1] = seq[j + 1], ![j + 1] = seq[i + 1]]

\* shuffle: Fisher-Yates, i from len-1 down to 1, j uniform in 0..=i
RECURSIVE ShuffleFrom(_, _, _)
ShuffleFrom(g, seq, i) ==
    IF i < 1 \/ i >= Len(seq) THEN [rng |-> g, v |-> seq]
    ELSE LET r == gen_range(g, 0, i + 1)
         IN ShuffleFrom(r.rng, Swap(seq, i, r.v), i - 1)

shuffle(g, seq) == ShuffleFrom(g, seq, Len(seq) - 1)

-----------------------------------------------------------------------------
(* Game state (game/state.rs).                                             *)
NoFlags == [prevent_damage_amount |-> 0, cant_retreat |-> FALSE,
            bonus_damage |-> 0, used_ability |-> FALSE]

PlayedCard_new(card, turn) ==
    [card |-> card, attached_energy |-> <<>>, damage_counters |-> 0,
     status_conditions |-> <<>>, evolved_from |-> None, turn_played |-> turn,
     tool |-> None, temp_flags |-> NoFlags]

max_hp(p) == IF IsSome(p.card.hp) THEN Unwrap(p.card.hp) ELSE 0
remaining_hp(p) == max_hp(p) - p.damage_counters * 10
is_knocked_out(p) == remaining_hp(p) <= 0
can_evolve_at_once(p, current_turn) == current_turn >= p.turn_played
can_evolve(p, current_turn) == current_turn > p.turn_played
has_status(p, status) == Contains(p.status_conditions, status)

ExclusiveStatuses == {"Asleep", "Confused", "Paralyzed"}

\* apply_status pushing the condition without looking at the list
apply_status_push(p, status) ==
    [p EXCEPT !.status_conditions = Append(p.status_conditions, status)]

apply_status(p, status) ==
    LET kept == IF status \in ExclusiveStatuses
                THEN Retain(p.status_conditions, Statuses \ ExclusiveStatuses)
                ELSE p.status_conditions
    IN [p EXCEPT !.status_conditions =
            IF Contains(kept, status) THEN kept ELSE Append(kept, status)]

clear_status(p) == [p EXCEPT !.status_conditions = <<>>]
clear_temp_flags(p) == [p EXCEPT !.temp_flags = NoFlags]

PlayerState_new ==
    [deck |-> <<>>, hand |-> <<>>, active |-> None,
     bench |-> [i \in 1..MAX_BENCH |-> None],
     discard |-> <<>>, prizes |-> <<>>, energy_zone_type |-> None,
     energy_generated |-> FALSE, supporter_played |-> FALSE,
     retreated_this_turn |-> FALSE, points |-> 0]

\* occupied bench slots, 0-based
BenchSlots(pl) == {i \in 0..(Len(pl.bench) - 1) : IsSome(pl.bench[i + 1])}
bench_count(pl) == Cardinality(BenchSlots(pl))
\* find_empty_bench: the first empty slot, as Option
find_empty_bench(pl) ==
    LET empty == {i \in 0..(Len(pl.bench) - 1) : IsNone(pl.bench[i + 1])}
    IN IF empty = {} THEN None
       ELSE Some(CHOOSE i \in empty : \A j \in empty : i <= j)
\* get_pokemon: Option<PlayedCard> at a board position (0 = active, 1.. = bench)
get_pokemon(pl, position) ==
    IF position = 0 THEN pl.active
    ELSE IF position - 1 < Len(pl.bench) THEN pl.bench[position] ELSE None
\* board positions that hold a Pokemon
all_pokemon(pl) == {pos \in 0..Len(pl.bench) : IsSome(get_pokemon(pl, pos))}
\* get_pokemon_mut followed by an assignment
SetPokemon(pl, position, p) ==
    IF position = 0 THEN [pl EXCEPT !.active = Some(p)]
    ELSE [pl EXCEPT !.bench[position] = Some(p)]
has_pokemon_in_play(pl) == IsSome(pl.active) \/ BenchSlots(pl) # {}
has_basic_in_hand(pl) == \E i \in 1..Len(pl.hand) : is_basic_pokemon(pl.hand[i])

OptMap(o, f(_)) == IF IsSome(o) THEN Some(f(Unwrap(o))) ELSE o

start_turn_retreated(pl) ==
    [pl EXCEPT !.energy_generated = FALSE,
               !.supporter_played = FALSE,
               !.active = OptMap(pl.active, clear_temp_flags),
               !.bench = [i \in 1..Len(pl.bench) |-> OptMap(pl.bench[i], clear_temp_flags)]]

start_turn(pl) ==
    [pl EXCEPT !.energy_generated = FALSE,
               !.supporter_played = FALSE,
               !.retreated_this_turn = FALSE,
               !.active = OptMap(pl.active, clear_temp_flags),
               !.bench = [i \in 1..Len(pl.bench) |-> OptMap(pl.bench[i], clear_temp_flags)]]

\* The GameState the operators below work on, with the random source that is
\* passed along with it and the count of between-turns passes made so far.
S == [players |-> players, current_player |-> current_player,
      turn_number |-> turn_number, phase |-> phase, winner |-> winner,
      first_turn |-> first_turn, pending_choice |-> pending_choice,
      deferred_turn_end |-> deferred_turn_end, rng |-> rng, bt_runs |-> bt_runs]

current(s) == s.players[s.current_player]
opponent(s) == s.players[1 - s.current_player]

NeedFullEndTurn(p) == [kind |-> "NeedFullEndTurn", player |-> p]
NeedTurnSwitch(p) == [kind |-> "NeedTurnSwitch", player |-> p]

-----------------------------------------------------------------------------
(* new_game (game/engine.rs).                                              *)
Take(seq, n) == SubSeq(seq, 1, Min(n, Len(seq)))
Drop(seq, n) == SubSeq(seq, Min(n, Len(seq)) + 1, Len(seq))

\* Deal with a starting hand one card short
DealShortHand(pl, cards) ==
    [pl EXCEPT !.hand = Take(cards, STARTING_HAND - 1),
               !.prizes = Take(Drop(cards, STARTING_HAND - 1), PRIZE_COUNT),
               !.deck = Drop(Drop(cards, STARTING_HAND - 1), PRIZE_COUNT)]

\* deal a shuffled pile: hand first, then prizes, the rest is the deck
Deal(pl, cards) ==
    [pl EXCEPT !.hand = Take(cards, STARTING_HAND),
               !.prizes = Take(Drop(cards, STARTING_HAND), PRIZE_COUNT),
               !.deck = Drop(Drop(cards, STARTING_HAND), PRIZE_COUNT)]

\* ensure_basic_in_hand giving up after three redeals
RECURSIVE ensure_basic_in_hand_thrice(_, _, _)
ensure_basic_in_hand_thrice(pl, g, attempts) ==
    IF has_basic_in_hand(pl) \/ attempts >= 3 THEN [rng |-> g, v |-> pl, attempts |-> attempts]
    ELSE LET sh == shuffle(g, pl.hand \o pl.deck \o pl.prizes)
         IN ensure_basic_in_hand_thrice(Deal(pl, sh.v), sh.rng, attempts + 1)

\* ensure_basic_in_hand: [rng, v], v the player after at most 10 redeals
RECURSIVE ensure_basic_in_hand(_, _, _)
ensure_basic_in_hand(pl, g, attempts) ==
    IF has_basic_in_hand(pl) \/ attempts >= 10 THEN [rng |-> g, v |-> pl, attempts |-> attempts]
    ELSE LET sh == shuffle(g, pl.hand \o pl.deck \o pl.prizes)
         IN ensure_basic_in_hand(Deal(pl, sh.v), sh.rng, attempts + 1)

new_game(deck1, deck2, seed) ==
    LET g0 == GameRng_new(seed)
        s1 == shuffle(g0, deck1)
        s2 == shuffle(s1.rng, deck2)
        p0 == Deal(PlayerState_new, s1.v)
        p1 == Deal(PlayerState_new, s2.v)
        m0 == ensure_basic_in_hand(p0, s2.rng, 0)
        m1 == ensure_basic_in_hand(p1, m0.rng, 0)
    IN [players |-> (0 :> m0.v @@ 1 :> m1.v), current_player |-> 0, turn_number |-> 0,
        phase |-> "Setup", winner |-> None, first_turn |-> TRUE,
        pending_choice |-> None, deferred_turn_end |-> None, rng |-> m1.rng,
        bt_runs |-> 0,
        dealt |-> [deck1 |-> deck1, deck2 |-> deck2, seed |-> seed,
                   attempts |-> (0 :> m0.attempts @@ 1 :> m1.attempts)]]

-----------------------------------------------------------------------------
(* Actions and the legal-action generator (game/actions.rs).               *)
Act(k, x, y) == [kind |-> k, a |-> x, b |-> y, e |-> ""]
ActE(k, et) == [kind |-> k, a |-> 0, b |-> 0, e |-> et]

HandIdx(pl) == 0..(Len(pl.hand) - 1)

\* legal_actions_setup offering the bench without looking for a free slot
legal_actions_setup_unbounded(s) ==
    LET player == current(s)
        basics == {i \in HandIdx(player) : is_basic_pokemon(player.hand[i + 1])}
    IN IF IsNone(player.active)
       THEN {Act("PlaceActive", i, 0) : i \in basics}
       ELSE {Act("PlaceBench", i, 0) : i \in basics} \cup {Act("ConfirmSetup", 0, 0)}

legal_actions_setup(s) ==
    LET player == current(s)
        basics == {i \in HandIdx(player) : is_basic_pokemon(player.hand[i + 1])}
    IN IF IsNone(player.active)
       THEN {Act("PlaceActive", i, 0) : i \in basics}
       ELSE (IF bench_count(player) < MAX_BENCH
             THEN {Act("PlaceBench", i, 0) : i \in basics} ELSE {})
            \cup {Act("ConfirmSetup", 0, 0)}

\* the stage step Basic -> Stage1 or Stage1 -> Stage2
valid_evo(hand_card, pokemon) ==
    CASE hand_card.stage = Some("Stage1") -> pokemon.card.stage = Some("Basic")
      [] hand_card.stage = Some("Stage2") -> pokemon.card.stage = Some("Stage1")
      [] OTHER -> FALSE

legal_actions_main(s) ==
    LET player == current(s)
        hand(i) == player.hand[i + 1]
        bench_acts ==
            IF bench_count(player) < MAX_BENCH
            THEN {Act("PlayPokemonToBench", i, 0) :
                    i \in {j \in HandIdx(player) : is_basic_pokemon(hand(j))}}
            ELSE {}
        evolve_acts ==
            {Act("EvolvePokemon", x[1], x[2]) :
                x \in {y \in HandIdx(player) \X all_pokemon(player) :
                         /\ is_evolution(hand(y[1]))
                         /\ IsSome(hand(y[1]).evolves_from)
                         /\ Unwrap(get_pokemon(player, y[2])).card.name
                                = Unwrap(hand(y[1]).evolves_from)
                         /\ can_evolve(Unwrap(get_pokemon(player, y[2])), s.turn_number)
                         /\ valid_evo(hand(y[1]), Unwrap(get_pokemon(player, y[2])))}}
        zone_acts ==
            IF IsNone(player.energy_zone_type)
            THEN {ActE("SetEnergyZoneType", e) : e \in ConcreteTypes} ELSE {}
        attach_acts ==
            IF ~player.energy_generated /\ IsSome(player.energy_zone_type)
            THEN {Act("AttachEnergy", pos, 0) : pos \in all_pokemon(player)} ELSE {}
        retreat_acts ==
            IF /\ ~player.retreated_this_turn
               /\ IsSome(player.active)
               /\ ~has_status(Unwrap(player.active), "Paralyzed")
               /\ ~has_status(Unwrap(player.active), "Asleep")
               /\ Len(Unwrap(player.active).attached_energy)
                    >= (LET rc == Unwrap(player.active).card.retreat_cost
                        IN IF IsSome(rc) THEN Unwrap(rc) ELSE 0)
            THEN {Act("Retreat", i, 0) : i \in BenchSlots(player)} ELSE {}
        ability_acts ==
            {Act("UseAbility", pos, 0) :
                pos \in {q \in all_pokemon(player) :
                           /\ IsSome(Unwrap(get_pokemon(player, q)).card.ability)
                           /\ ~Unwrap(get_pokemon(player, q)).temp_flags.used_ability}}
        trainer_acts ==
            {Act("PlayTrainer", i, 0) :
                i \in {j \in HandIdx(player) :
                         hand(j).card_type \in {"Item", "Tool", "Fossil"}}}
        supporter_acts ==
            {Act("PlaySupporter", i, 0) :
                i \in {j \in HandIdx(player) :
                         hand(j).card_type = "Supporter" /\ ~player.supporter_played}}
        attack_acts ==
            IF /\ ~s.first_turn
               /\ IsSome(player.active)
               /\ ~has_status(Unwrap(player.active), "Paralyzed")
            THEN {Act("UseAttack", k, 0) :
                    k \in {j \in 0..(Len(Unwrap(player.active).card.attacks) - 1) :
                             can_use_attack(Unwrap(player.active).card, j,
                                            Unwrap(player.active).attached_energy)}}
            ELSE {}
    IN bench_acts \cup evolve_acts \cup zone_acts \cup attach_acts \cup retreat_acts
       \cup ability_acts \cup trainer_acts \cup supporter_acts \cup attack_acts
       \cup {Act("EndTurn", 0, 0)}

\* Only PromoteFromBench is ever raised by the engine; the other pending
\* choices of state.rs are never constructed.
legal_actions_effect_choice(s) ==
    IF s.pending_choice = Some("PromoteFromBench")
    THEN {Act("PromotePokemon", i, 0) : i \in BenchSlots(current(s))}
    ELSE {}

legal_actions(s) ==
    CASE s.phase = "Setup" -> legal_actions_setup(s)
      [] s.phase = "Main" -> legal_actions_main(s)
      [] s.phase = "EffectChoice" -> legal_actions_effect_choice(s)
      [] OTHER -> {}

\* the values of the Action enum, indices taken from 0 .. MaxIndex
ActionSpace ==
    {Act(k, i, 0) :
        k \in {"PlaceActive", "PlaceBench", "PlayPokemonToBench", "AttachEnergy", "Retreat",
               "UseAbility", "PlayTrainer", "PlaySupporter", "UseAttack", "ChooseTarget",
               "ChooseOption", "PromotePokemon"},
        i \in 0..MaxIndex}
    \cup {Act("EvolvePokemon", i, j) : i \in 0..MaxIndex, j \in 0..MaxIndex}
    \cup {ActE("SetEnergyZoneType", e) : e \in ConcreteTypes \cup {"Colorless"}}
    \cup {Act("ConfirmSetup", 0, 0), Act("EndTurn", 0, 0)}

-----------------------------------------------------------------------------
(* Discrete action indices (bridge/action_map.rs).                         *)
action_to_index(action) ==
    LET energy_type_to_idx(et) ==
            CASE et = "Grass" -> 0 [] et = "Fire" -> 1 [] et = "Water" -> 2
              [] et = "Lightning" -> 3 [] et = "Psychic" -> 4 [] et = "Fighting" -> 5
              [] et = "Darkness" -> 6 [] et = "Metal" -> 7 [] et = "Dragon" -> 8
              [] et = "Colorless" -> 9
    IN CASE action.kind = "PlaceActive" -> action.a
         [] action.kind = "PlaceBench" -> 10 + action.a
         [] action.kind = "ConfirmSetup" -> 20
         [] action.kind = "PlayPokemonToBench" -> 21 + action.a
         [] action.kind = "EvolvePokemon" -> 31 + action.a * 4 + action.b
         [] action.kind = "SetEnergyZoneType" -> 71 + energy_type_to_idx(action.e)
         [] action.kind = "AttachEnergy" -> 80 + action.a
         [] action.kind = "Retreat" -> 84 + action.a
         [] action.kind = "UseAbility" -> 87 + action.a
         [] action.kind = "PlayTrainer" -> 91 + action.a
         [] action.kind = "PlaySupporter" -> 101 + action.a
         [] action.kind = "UseAttack" -> 111 + action.a
         [] action.kind = "EndTurn" -> 114
         [] action.kind = "ChooseTarget" -> 115 + action.a
         [] action.kind = "ChooseOption" -> 119 + action.a
         [] action.kind = "PromotePokemon" -> 129 + action.a

\* index_to_action: an Option
index_to_action(idx) ==
    LET idx_to_energy_type(i) ==
            CASE i = 0 -> Some("Grass") [] i = 1 -> Some("Fire") [] i = 2 -> Some("Water")
              [] i = 3 -> Some("Lightning") [] i = 4 -> Some("Psychic")
              [] i = 5 -> Some("Fighting") [] i = 6 -> Some("Darkness")
              [] i = 7 -> Some("Metal") [] i = 8 -> Some("Dragon")
              [] OTHER -> None
    IN CASE idx \in 0..9 -> Some(Act("PlaceActive", idx, 0))
         [] idx \in 10..19 -> Some(Act("PlaceBench", idx - 10, 0))
         [] idx = 20 -> Some(Act("ConfirmSetup", 0, 0))
         [] idx \in 21..30 -> Some(Act("PlayPokemonToBench", idx - 21, 0))
         [] idx \in 31..70 -> Some(Act("EvolvePokemon", (idx - 31) \div 4, (idx - 31) % 4))
         [] idx \in 71..79 ->
                IF IsSome(idx_to_energy_type(idx - 71))
                THEN Some(ActE("SetEnergyZoneType", Unwrap(idx_to_energy_type(idx - 71))))
                ELSE None
         [] idx \in 80..83 -> Some(Act("AttachEnergy", idx - 80, 0))
         [] idx \in 84..86 -> Some(Act("Retreat", idx - 84, 0))
         [] idx \in 87..90 -> Some(Act("UseAbility", idx - 87, 0))
         [] idx \in 91..100 -> Some(Act("PlayTrainer", idx - 91, 0))
         [] idx \in 101..110 -> Some(Act("PlaySupporter", idx - 101, 0))
         [] idx \in 111..113 -> Some(Act("UseAttack", idx - 111, 0))
         [] idx = 114 -> Some(Act("EndTurn", 0, 0))
         [] idx \in 115..118 -> Some(Act("ChooseTarget", idx - 115, 0))
         [] idx \in 119..128 -> Some(Act("ChooseOption", idx - 119, 0))
         [] idx \in 129..131 -> Some(Act("PromotePokemon", idx - 129, 0))
         [] OTHER -> None

-----------------------------------------------------------------------------
(* Effect executor (effects/executor.rs).                                  *)
SetPlayer(s, i, pl) == [s EXCEPT !.players[i] = pl]

\* The Pokemon a Target stands for, as <<player, board position>> in the
\* order apply_to_target visits them.
RECURSIVE SlotSeq(_, _, _)
SlotSeq(pl, who, i) ==
    IF i > Len(pl.bench) THEN <<>>
    ELSE (IF IsSome(pl.bench[i]) THEN <<<<who, i>>>> ELSE <<>>) \o SlotSeq(pl, who, i + 1)

ActiveSeq(pl, who) == IF IsSome(pl.active) THEN <<<<who, 0>>>> ELSE <<>>
FirstOf(seq) == IF seq = <<>> THEN <<>> ELSE <<Head(seq)>>

TargetSeq(s, target) ==
    LET cur == s.current_player
        opp == 1 - s.current_player
    IN CASE target \in {"This", "OwnActive", "ChooseOwn"} -> ActiveSeq(s.players[cur], cur)
         [] target = "OpponentActive" -> ActiveSeq(s.players[opp], opp)
         [] target = "OpponentBench" -> SlotSeq(s.players[opp], opp, 1)
         [] target = "ChooseOwnBench" -> FirstOf(SlotSeq(s.players[cur], cur, 1))
         [] target \in {"ChooseOpponentBench", "OpponentChooseBench"} ->
                FirstOf(SlotSeq(s.players[opp], opp, 1))
         [] target = "AllOwn" -> ActiveSeq(s.players[cur], cur) \o SlotSeq(s.players[cur], cur, 1)
         [] OTHER -> <<>>

\* f applied to each Pokemon of ws (the closures of the executor read and write
\* the Pokemon they are given only, so the visiting order does not show)
ApplySeq(s, ws, f(_)) ==
    LET hit(w) == \E k \in 1..Len(ws) : ws[k] = w
    IN [s EXCEPT !.players =
          [i \in {0, 1} |->
             LET pl == s.players[i]
             IN [pl EXCEPT
                   !.active = IF hit(<<i, 0>>) THEN Some(f(Unwrap(pl.active))) ELSE pl.active,
                   !.bench = [k \in 1..Len(pl.bench) |->
                                IF hit(<<i, k>>) THEN Some(f(Unwrap(pl.bench[k])))
                                ELSE pl.bench[k]]]]]

apply_to_target(s, target, f(_)) == ApplySeq(s, TargetSeq(s, target), f)

Heal(p, amount) ==
    [p EXCEPT !.damage_counters = p.damage_counters - Min(amount \div 10, p.damage_counters)]
AddDamage(p, counters) == [p EXCEPT !.damage_counters = p.damage_counters + counters]
RECURSIVE PushEnergy(_, _, _)
PushEnergy(p, e, n) ==
    IF n <= 0 THEN p
    ELSE PushEnergy([p EXCEPT !.attached_energy = Append(p.attached_energy, e)], e, n - 1)
RECURSIVE PopEnergy(_, _)
PopEnergy(p, n) ==
    IF n <= 0 THEN p
    ELSE PopEnergy([p EXCEPT !.attached_energy = Pop(p.attached_energy)], n - 1)

\* draw up to n cards from the end of the deck (nothing happens on an empty deck)
RECURSIVE DrawN(_, _)
DrawN(pl, n) ==
    IF n <= 0 \/ pl.deck = <<>> THEN pl
    ELSE DrawN([pl EXCEPT !.hand = Append(pl.hand, pl.deck[Len(pl.deck)]),
                          !.deck = Pop(pl.deck)], n - 1)

\* the active is gone: the first occupied bench slot, if any, takes its place
PromoteFirstBench(pl) ==
    IF BenchSlots(pl) = {} THEN pl
    ELSE LET i == CHOOSE k \in BenchSlots(pl) : \A j \in BenchSlots(pl) : k <= j
         IN [pl EXCEPT !.active = pl.bench[i + 1], !.bench[i + 1] = None]

\* swap the active of player who with a randomly chosen bench Pokemon
SwitchActive(s, who) ==
    LET pl == s.players[who]
        slots == SlotSeq(pl, who, 1)
    IN IF slots = <<>> THEN s
       ELSE LET r == gen_range(s.rng, 0, Len(slots))
                idx == slots[r.v + 1][2]
            IN [SetPlayer(s, who, [pl EXCEPT !.active = pl.bench[idx],
                                             !.bench[idx] = pl.active])
                  EXCEPT !.rng = r.rng]

\* MoveDamage: the closure keeps the count moved off the last source visited
RECURSIVE TakeDamage(_, _, _, _)
TakeDamage(s, ws, counters, moved) ==
    IF ws = <<>> THEN [s |-> s, moved |-> moved]
    ELSE LET w == Head(ws)
             p == Unwrap(get_pokemon(s.players[w[1]], w[2]))
             m == Min(counters, p.damage_counters)
         IN TakeDamage(SetPlayer(s, w[1], SetPokemon(s.players[w[1]], w[2], AddDamage(p, 0 - m))),
                       Tail(ws), counters, m)

execute_mechanic(s, m) ==
    LET cur == s.current_player
        opp == 1 - s.current_player
    IN CASE m.kind = "Heal" -> apply_to_target(s, m.target, LAMBDA p : Heal(p, m.amount))
         [] m.kind = "FullHeal" ->
                apply_to_target(s, m.target, LAMBDA p : [p EXCEPT !.damage_counters = 0])
         [] m.kind = "ApplyStatus" ->
                apply_to_target(s, m.target, LAMBDA p : apply_status(p, m.status))
         [] m.kind = "ApplyStatusOnCoinFlip" ->
                LET r == coin_flip(s.rng)
                    s1 == [s EXCEPT !.rng = r.rng]
                IN IF r.v THEN apply_to_target(s1, m.target, LAMBDA p : apply_status(p, m.status))
                   ELSE s1
         [] m.kind = "CureStatus" -> apply_to_target(s, m.target, clear_status)
         [] m.kind = "DiscardOpponentEnergy" ->
                apply_to_target(s, "OpponentActive", LAMBDA p : PopEnergy(p, m.count))
         [] m.kind = "AttachEnergyFromZone" ->
                apply_to_target(s, m.target, LAMBDA p : PushEnergy(p, Unwrap(m.energy), m.count))
         [] m.kind = "DrawCards" -> SetPlayer(s, cur, DrawN(s.players[cur], m.amount))
         [] m.kind = "SwitchOpponentActive" -> SwitchActive(s, opp)
         [] m.kind = "SwitchOwnActive" -> SwitchActive(s, cur)
         [] m.kind = "BounceToHand" ->
                IF m.target \in {"OwnActive", "This"} /\ IsSome(s.players[cur].active)
                THEN LET pl == s.players[cur]
                     IN SetPlayer(s, cur,
                            PromoteFirstBench([pl EXCEPT !.hand = Append(pl.hand, Unwrap(pl.active).card),
                                                         !.active = None]))
                ELSE s
         [] m.kind = "CantRetreat" ->
                apply_to_target(s, "OpponentActive",
                                LAMBDA p : [p EXCEPT !.temp_flags.cant_retreat = TRUE])
         [] m.kind = "DamageBoost" ->
                apply_to_target(s, "OwnActive",
                    LAMBDA p : [p EXCEPT !.temp_flags.bonus_damage = p.temp_flags.bonus_damage + m.amount])
         [] m.kind = "DamageReduction" ->
                apply_to_target(s, "AllOwn",
                    LAMBDA p : [p EXCEPT !.temp_flags.prevent_damage_amount =
                                            p.temp_flags.prevent_damage_amount + m.amount])
         [] m.kind = "GuaranteedHeads" -> [s EXCEPT !.rng = set_guaranteed_heads(s.rng, TRUE)]
         [] m.kind = "MoveDamage" ->
                LET t == TakeDamage(s, TargetSeq(s, m.target), m.amount \div 10, 0)
                IN IF t.moved > 0
                   THEN apply_to_target(t.s, m.to, LAMBDA p : AddDamage(p, t.moved))
                   ELSE t.s
         [] m.kind = "SelfDamage" ->
                apply_to_target(s, "OwnActive", LAMBDA p : AddDamage(p, m.amount \div 10))
         [] m.kind = "PreventDamage" ->
                apply_to_target(s, "OwnActive",
                    LAMBDA p : [p EXCEPT !.temp_flags.prevent_damage_amount = m.amount])
         [] m.kind = "Invulnerable" ->
                apply_to_target(s, "OwnActive",
                    LAMBDA p : [p EXCEPT !.temp_flags.prevent_damage_amount = 9999])
         [] m.kind = "BenchDamage" ->
                IF m.target = "OpponentBench"
                THEN apply_to_target(s, "OpponentBench", LAMBDA p : AddDamage(p, m.amount \div 10))
                ELSE IF m.target = "ChooseOpponentBench"
                THEN LET slots == SlotSeq(s.players[opp], opp, 1)
                     IN IF slots = <<>> THEN s
                        ELSE LET r == gen_range(s.rng, 0, Len(slots))
                             IN [ApplySeq(s, <<slots[r.v + 1]>>,
                                          LAMBDA p : AddDamage(p, m.amount \div 10))
                                   EXCEPT !.rng = r.rng]
                ELSE s
         \* passive effects, EndTurn, Damage, Custom, NoOp and the mechanics the
         \* executor leaves as "simplified: no-op" change nothing here
         [] OTHER -> s

RECURSIVE ExecuteAll(_, _, _)
ExecuteAll(s, ms, skip) ==
    IF ms = <<>> THEN s
    ELSE ExecuteAll(IF Head(ms).kind \in skip THEN s ELSE execute_mechanic(s, Head(ms)),
                    Tail(ms), skip)

\* coin_flips: [rng, v], v the number of heads among count flips
RECURSIVE coin_flips(_, _)
coin_flips(g, count) ==
    IF count <= 0 THEN [rng |-> g, v |-> 0]
    ELSE LET r == coin_flip(g)
             rest == coin_flips(r.rng, count - 1)
         IN [rng |-> rest.rng, v |-> rest.v + (IF r.v THEN 1 ELSE 0)]

ActiveOr(pl, f(_), default) == IF IsSome(pl.active) THEN f(Unwrap(pl.active)) ELSE default

\* count_condition: [rng, v]
count_condition(s, condition, et) ==
    LET own == current(s)
        opp == opponent(s)
        fixed(n) == [rng |-> s.rng, v |-> n]
    IN CASE condition = "PerOwnBench" -> fixed(bench_count(own))
         [] condition = "PerOpponentBench" -> fixed(bench_count(opp))
         [] condition = "PerDamageOnSelf" -> fixed(ActiveOr(own, LAMBDA p : p.damage_counters, 0))
         [] condition = "PerEnergyAttached" ->
                fixed(ActiveOr(own, LAMBDA p : Len(Retain(p.attached_energy, {Unwrap(et)})), 0))
         [] condition = "PerAnyEnergyAttached" ->
                fixed(ActiveOr(own, LAMBDA p : Len(p.attached_energy), 0))
         [] condition = "CoinFlipHeads" ->
                LET r == coin_flip(s.rng) IN [rng |-> r.rng, v |-> IF r.v THEN 1 ELSE 0]
         [] condition = "TargetHasDamage" ->
                fixed(IF ActiveOr(opp, LAMBDA p : p.damage_counters > 0, FALSE) THEN 1 ELSE 0)
         [] OTHER -> fixed(0)

\* check_condition: [rng, v]
check_condition(s, condition, et) ==
    IF condition = "PerEnergyAttached"
    THEN [rng |-> s.rng, v |-> ActiveOr(current(s), LAMBDA p : p.attached_energy # <<>>, FALSE)]
    ELSE LET c == count_condition(s, condition, et) IN [rng |-> c.rng, v |-> c.v > 0]

PreDamageKinds ==
    {"NoDamageOnTails", "DamageOnCoinFlip", "DamagePerCoinFlip", "ConditionalDamage",
     "DamageMultiplied", "DamagePerEnergy", "DamagePerBench", "DamagePerDamageCounter"}

\* first pass of execute_attack_effects: [s, v], v the damage override (Option)
RECURSIVE ShapeDamage(_, _, _)
ShapeDamage(s, ms, ov) ==
    IF ms = <<>> THEN [s |-> s, v |-> ov]
    ELSE LET m == Head(ms)
             own == current(s)
         IN CASE m.kind \in {"NoDamageOnTails", "DamageOnCoinFlip"} ->
                    LET r == coin_flip(s.rng)
                    IN ShapeDamage([s EXCEPT !.rng = r.rng], Tail(ms),
                                   IF r.v THEN ov ELSE Some(0))
              [] m.kind = "DamagePerCoinFlip" ->
                    LET r == coin_flips(s.rng, m.count)
                    IN ShapeDamage([s EXCEPT !.rng = r.rng], Tail(ms), Some(r.v * m.amount))
              [] m.kind = "ConditionalDamage" ->
                    LET r == check_condition(s, m.cond, m.energy)
                    IN ShapeDamage([s EXCEPT !.rng = r.rng], Tail(ms),
                                   IF r.v THEN Some((IF IsSome(ov) THEN Unwrap(ov) ELSE 0) + m.amount)
                                   ELSE ov)
              [] m.kind = "DamageMultiplied" ->
                    LET r == count_condition(s, m.cond, m.energy)
                    IN ShapeDamage([s EXCEPT !.rng = r.rng], Tail(ms), Some(r.v * m.amount))
              [] m.kind = "DamagePerEnergy" ->
                    ShapeDamage(s, Tail(ms),
                        IF IsSome(own.active)
                        THEN LET e == Unwrap(own.active).attached_energy
                             IN Some((IF IsSome(m.energy)
                                      THEN Len(Retain(e, {Unwrap(m.energy)}))
                                      ELSE Len(e)) * m.amount)
                        ELSE ov)
              [] m.kind = "DamagePerBench" ->
                    ShapeDamage(s, Tail(ms),
                        Some(bench_count(IF m.target = "own" THEN own ELSE opponent(s)) * m.amount))
              [] m.kind = "DamagePerDamageCounter" ->
                    ShapeDamage(s, Tail(ms),
                        IF IsSome(own.active)
                        THEN Some(Unwrap(own.active).damage_counters * m.amount) ELSE ov)
              [] OTHER -> ShapeDamage(s, Tail(ms), ov)

\* execute_attack_effects: [s, v]
execute_attack_effects(s, card_id, attack_idx) ==
    LET effects == get_attack_effects(card_id, attack_idx)
        shaped == ShapeDamage(s, effects, None)
    IN [s |-> ExecuteAll(shaped.s, effects, PreDamageKinds), v |-> shaped.v]

-----------------------------------------------------------------------------
(* Turn structure, knockouts and win detection (game/engine.rs).           *)

\* draw_card with the deck-out credited to the player who could not draw
draw_card_loser_wins(s) ==
    LET pl == current(s)
    IN IF pl.deck # <<>>
       THEN [s EXCEPT !.players[s.current_player] =
                [pl EXCEPT !.hand = Append(pl.hand, pl.deck[Len(pl.deck)]),
                           !.deck = Pop(pl.deck)]]
       ELSE [s EXCEPT !.winner = Some(s.current_player), !.phase = "GameOver"]

\* draw_card: the current player draws the last card of the deck, or loses
draw_card(s) ==
    LET pl == current(s)
    IN IF pl.deck # <<>>
       THEN SetPlayer(s, s.current_player,
                [pl EXCEPT !.hand = Append(pl.hand, pl.deck[Len(pl.deck)]),
                           !.deck = Pop(pl.deck)])
       ELSE [s EXCEPT !.winner = Some(1 - s.current_player), !.phase = "GameOver"]

\* the verdict of check_win_conditions for player i, taken alone
WinsNow(s, i) ==
    \/ s.players[i].points >= PRIZE_COUNT
    \/ ~has_pokemon_in_play(s.players[1 - i])

check_win_conditions(s) ==
    IF s.phase = "GameOver" THEN s
    ELSE IF WinsNow(s, 0) THEN [s EXCEPT !.winner = Some(0), !.phase = "GameOver"]
    ELSE IF WinsNow(s, 1) THEN [s EXCEPT !.winner = Some(1), !.phase = "GameOver"]
    ELSE s

\* effects of the tool attached to a Pokemon (none without a tool)
ToolEffects(p) == IF IsSome(p.tool) THEN get_tool_effects(Unwrap(p.tool).id) ELSE <<>>
HasKind(ms, kind) == \E k \in 1..Len(ms) : ms[k].kind = kind

\* the number of energies OnKOMoveEnergy asks to move (the last such effect wins)
RECURSIVE MoveEnergyCount(_, _)
MoveEnergyCount(ms, n) ==
    IF ms = <<>> THEN n
    ELSE MoveEnergyCount(Tail(ms), IF Head(ms).kind = "OnKOMoveEnergy" THEN Head(ms).count ELSE n)

\* occupied bench slots, 0-based, in slot order
RECURSIVE BenchSlotSeq(_, _)
BenchSlotSeq(pl, i) ==
    IF i >= Len(pl.bench) THEN <<>>
    ELSE (IF IsSome(pl.bench[i + 1]) THEN <<i>> ELSE <<>>) \o BenchSlotSeq(pl, i + 1)

\* energies[k], k < count, go to the occupied bench slots in turn
RECURSIVE MoveEnergies(_, _, _, _, _)
MoveEnergies(pl, energies, count, slots, k) ==
    IF k >= Len(energies) \/ k >= count \/ slots = <<>> THEN pl
    ELSE MoveEnergies(
            [pl EXCEPT !.bench[slots[(k % Len(slots)) + 1] + 1] =
                Some([Unwrap(@) EXCEPT !.attached_energy = Append(@, energies[k + 1])])],
            energies, count, slots, k + 1)

\* the attacking side of a knockout with one point for every Pokemon
KnockoutGainOnePoint(att, ko_pokemon) ==
    IF IsSome(att.active) /\ HasKind(ToolEffects(Unwrap(att.active)), "OnKODrawCard")
    THEN DrawN([att EXCEPT !.points = @ + 1], 1)
    ELSE [att EXCEPT !.points = @ + 1]

\* the attacking side of a knockout: points, and the OnKODrawCard tool
KnockoutGain(att, ko_pokemon) ==
    IF IsSome(att.active) /\ HasKind(ToolEffects(Unwrap(att.active)), "OnKODrawCard")
    THEN DrawN([att EXCEPT !.points = @ + (IF ko_pokemon.card.is_ex THEN 2 ELSE 1)], 1)
    ELSE [att EXCEPT !.points = @ + (IF ko_pokemon.card.is_ex THEN 2 ELSE 1)]

\* the knocked-out side: energy moved by OnKOMoveEnergy, the card to the hand
\* (OnKOBounceToHand) or to the discard pile
KnockoutLoss(ko, ko_pokemon) ==
    LET moved == MoveEnergies([ko EXCEPT !.active = None], ko_pokemon.attached_energy,
                              MoveEnergyCount(ToolEffects(ko_pokemon), 0),
                              BenchSlotSeq(ko, 0), 0)
    IN IF HasKind(ToolEffects(ko_pokemon), "OnKOBounceToHand")
       THEN [moved EXCEPT !.hand = Append(@, ko_pokemon.card)]
       ELSE [moved EXCEPT !.discard = Append(@, ko_pokemon.card)]

\* the active leaves play and nobody scores
RemoveKnockedOutUnscored(s, knocked_out_player) ==
    IF IsNone(s.players[knocked_out_player].active) THEN s
    ELSE [s EXCEPT !.players[knocked_out_player] =
            KnockoutLoss(@, Unwrap(s.players[knocked_out_player].active))]

\* first half of handle_knockout: the active leaves play
RemoveKnockedOut(s, knocked_out_player) ==
    IF IsNone(s.players[knocked_out_player].active) THEN s
    ELSE [s EXCEPT !.players =
            [i \in {0, 1} |->
                IF i = knocked_out_player
                THEN KnockoutLoss(s.players[i], Unwrap(s.players[i].active))
                ELSE KnockoutGain(s.players[i], Unwrap(s.players[knocked_out_player].active))]]

\* second half of handle_knockout: the lone bench Pokemon steps up, or the
\* knocked-out side is asked to choose
Promotion(s, knocked_out_player, bench_pokemon) ==
    IF Len(bench_pokemon) = 1
    THEN [s EXCEPT !.players[knocked_out_player].active =
                        s.players[knocked_out_player].bench[bench_pokemon[1] + 1],
                   !.players[knocked_out_player].bench[bench_pokemon[1] + 1] = None]
    ELSE IF bench_pokemon # <<>>
    THEN [s EXCEPT !.pending_choice = Some("PromoteFromBench"),
                   !.phase = "EffectChoice",
                   !.current_player = knocked_out_player]
    ELSE s

handle_knockout(s, knocked_out_player) ==
    LET removed == RemoveKnockedOut(s, knocked_out_player)
    IN Promotion(removed, knocked_out_player,
                 BenchSlotSeq(removed.players[knocked_out_player], 0))

\* "if ko { handle_knockout(state, i) }"
KnockOutIf(s, i) ==
    IF IsSome(s.players[i].active) /\ is_knocked_out(Unwrap(s.players[i].active))
    THEN handle_knockout(s, i) ELSE s

\* the tool's between-turns effects, in registry order
RECURSIVE BetweenTurnsTool(_, _)
BetweenTurnsTool(p, ms) ==
    IF ms = <<>> THEN p
    ELSE BetweenTurnsTool(
            CASE Head(ms).kind = "HealBetweenTurns" -> Heal(p, Head(ms).amount)
              [] Head(ms).kind = "CureStatusBetweenTurns" -> clear_status(p)
              [] OTHER -> p,
            Tail(ms))

\* the status checks of resolve_between_turns on the active a, one per
\* operator; each gives [rng, v] with v the Pokemon afterwards
Poison(a) == IF has_status(a, "Poisoned") THEN AddDamage(a, 1) ELSE a
BurnFlip(a, flip) == [rng |-> flip.rng, v |-> IF flip.v THEN a ELSE AddDamage(a, 2)]
Burn(g, a) == IF has_status(a, "Burned") THEN BurnFlip(a, coin_flip(g)) ELSE [rng |-> g, v |-> a]
SleepFlip(a, flip) ==
    [rng |-> flip.rng,
     v |-> IF flip.v THEN [a EXCEPT !.status_conditions = Retain(@, Statuses \ {"Asleep"})]
           ELSE a]
Sleep(r) == IF has_status(r.v, "Asleep") THEN SleepFlip(r.v, coin_flip(r.rng)) ELSE r
\* the paralysis check leaving the status in place
Paralysis_kept(a) == a

Paralysis(a) == [a EXCEPT !.status_conditions = Retain(@, Statuses \ {"Paralyzed"})]
BetweenTurnsActive(g, a) ==
    LET r == Sleep(Burn(g, Poison(a)))
    IN [rng |-> r.rng, v |-> BetweenTurnsTool(Paralysis(r.v), ToolEffects(r.v))]

StatusPass(s, r) ==
    [s EXCEPT !.rng = r.rng, !.players[s.current_player].active = Some(r.v)]

resolve_between_turns(s) ==
    IF IsNone(current(s).active) THEN [s EXCEPT !.bt_runs = @ + 1]
    ELSE KnockOutIf(StatusPass([s EXCEPT !.bt_runs = @ + 1],
                               BetweenTurnsActive(s.rng, Unwrap(current(s).active))),
                    s.current_player)

\* the tail of complete_turn_switch setting the phase unconditionally
MainAlways(s) == [s EXCEPT !.phase = "Main"]

\* the tail of complete_turn_switch: "if phase != GameOver { phase = Main }"
MainUnlessOver(s) == IF s.phase # "GameOver" THEN [s EXCEPT !.phase = "Main"] ELSE s

complete_turn_switch(s) ==
    MainUnlessOver(draw_card(
        [s EXCEPT !.current_player = 1 - s.current_player,
                  !.turn_number = s.turn_number + 1,
                  !.first_turn = FALSE,
                  !.players[1 - s.current_player] = start_turn(@)]))

\* the end of turn going on to the next turn over a pending choice
SwitchOrDefer_never(s) == complete_turn_switch(s)

\* what end_turn does once the between-turns pass is over
SwitchOrDefer(s) ==
    IF IsSome(s.pending_choice)
    THEN [s EXCEPT !.deferred_turn_end = Some(NeedTurnSwitch(s.current_player))]
    ELSE complete_turn_switch(s)

end_turn(s) == SwitchOrDefer(resolve_between_turns(s))

-----------------------------------------------------------------------------
(* StepResult and the attack (game/engine.rs).                             *)
Continue == [kind |-> "Continue", winner |-> None]
GameOver(w) == [kind |-> "GameOver", winner |-> Some(w)]
InvalidAction == [kind |-> "InvalidAction", winner |-> None]

Step(s, r) == [s |-> s, r |-> r]
\* "if let Some(winner) = state.winner { GameOver } else { Continue }"
Verdict(s) == Step(s, IF IsSome(s.winner) THEN GameOver(Unwrap(s.winner)) ELSE Continue)

RECURSIVE SumAmounts(_, _, _)
SumAmounts(ms, kind, points) ==
    IF ms = <<>> THEN 0
    ELSE (CASE Head(ms).kind # kind -> 0
            [] kind = "DamageBoostPerPoint" -> Head(ms).amount * points
            [] OTHER -> Head(ms).amount)
         + SumAmounts(Tail(ms), kind, points)

\* base damage of the attack against what the effects made of it
BaseDamage(attack, override) ==
    IF IsSome(override)
    THEN (IF attack.damage > 0 /\ Unwrap(override) > 0 THEN attack.damage + Unwrap(override)
          ELSE IF Unwrap(override) > 0 THEN Unwrap(override)
          ELSE 0)
    ELSE attack.damage

\* att, def: the two actives as Options
WithWeakness_always(att, def, damage) == IF damage > 0 THEN damage + 20 ELSE damage

\* att, def: the two actives as Options
WithWeakness(att, def, damage) ==
    IF /\ damage > 0
       /\ IsSome(def)
       /\ IsSome(Unwrap(def).card.weakness)
       /\ IsSome(att)
       /\ IsSome(Unwrap(att).card.energy_type)
       /\ Unwrap(att).card.energy_type = Unwrap(def).card.weakness
    THEN damage + 20 ELSE damage

WithBoosts_unscored(att, points, damage) ==
    IF IsSome(att) THEN damage + Unwrap(att).temp_flags.bonus_damage ELSE damage

WithBoosts(att, points, damage) ==
    IF IsSome(att)
    THEN damage + Unwrap(att).temp_flags.bonus_damage
         + SumAmounts(ToolEffects(Unwrap(att)), "DamageBoostPerPoint", points)
         + SumAmounts(ToolEffects(Unwrap(att)), "PassiveDamageBoost", 0)
    ELSE damage

Prevention(d) ==
    d.temp_flags.prevent_damage_amount
    + SumAmounts(ToolEffects(d), "PassiveDamageReduction", 0)
    + (IF IsSome(d.card.ability)
       THEN SumAmounts(get_ability_effects(d.card), "PassiveDamageReduction", 0) ELSE 0)

AfterPrevention(def, damage) ==
    IF IsSome(def)
    THEN LET prevented == Prevention(Unwrap(def))
         IN IF damage > prevented THEN damage - prevented ELSE 0
    ELSE damage

\* the damage the attack of player cp deals, from its base damage
AttackDamage(s, cp, base) ==
    AfterPrevention(s.players[1 - cp].active,
        WithBoosts(s.players[cp].active, s.players[cp].points,
            WithWeakness(s.players[cp].active, s.players[1 - cp].active, base)))

\* the defender's tool strikes back at the attacking Pokemon, in registry order
RECURSIVE Retaliate(_, _)
Retaliate(attacker, ms) ==
    IF ms = <<>> THEN attacker
    ELSE Retaliate(
            CASE Head(ms).kind = "RetaliationDamage" -> AddDamage(attacker, Head(ms).amount \div 10)
              [] Head(ms).kind = "RetaliationStatus" -> apply_status(attacker, Head(ms).status)
              [] OTHER -> attacker,
            Tail(ms))

\* damage counters on the defender, then the retaliation of its tool
DealDamage(s, cp, damage) ==
    IF damage > 0 /\ IsSome(s.players[1 - cp].active)
    THEN [s EXCEPT
            !.players[1 - cp].active = Some(AddDamage(Unwrap(@), damage \div 10)),
            !.players[cp].active =
                IF IsSome(@)
                THEN Some(Retaliate(Unwrap(@), ToolEffects(Unwrap(s.players[1 - cp].active))))
                ELSE @]
    ELSE s

\* the end of resolve_attack deferring the turn switch only
AfterAttackSwitchOnly(s, cp) ==
    IF IsSome(s.pending_choice)
    THEN Verdict(check_win_conditions([s EXCEPT !.deferred_turn_end = Some(NeedTurnSwitch(cp))]))
    ELSE Verdict(check_win_conditions(end_turn(s)))

\* the end of resolve_attack: defer the end of turn behind a promotion
\* choice, or end the turn; then look for a winner
AfterAttack(s, cp) ==
    IF IsSome(s.pending_choice)
    THEN Verdict(check_win_conditions([s EXCEPT !.deferred_turn_end = Some(NeedFullEndTurn(cp))]))
    ELSE Verdict(check_win_conditions(end_turn(s)))

\* fx: what execute_attack_effects returned
Strike(fx, attack, cp) ==
    AfterAttack(
        KnockOutIf(
            KnockOutIf(DealDamage(fx.s, cp, AttackDamage(fx.s, cp, BaseDamage(attack, fx.v))),
                       1 - cp),
            cp),
        cp)

resolve_attack(s, attack_idx) ==
    IF IsNone(current(s).active) THEN Step(s, InvalidAction)
    ELSE IF attack_idx >= Len(Unwrap(current(s).active).card.attacks)
    THEN Step(s, InvalidAction)
    ELSE Strike(execute_attack_effects(s, Unwrap(current(s).active).card, attack_idx),
                Unwrap(current(s).active).card.attacks[attack_idx + 1],
                s.current_player)

-----------------------------------------------------------------------------
(* apply_action and its three phase handlers (game/engine.rs).             *)

PlaceOnBench(s, hand_idx) ==
    LET cp == s.current_player
        player == s.players[cp]
        slot == find_empty_bench(player)
    IN IF hand_idx >= Len(player.hand) THEN Step(s, InvalidAction)
       ELSE IF IsSome(slot)
       THEN Step(SetPlayer(s, cp,
                    [player EXCEPT
                        !.hand = RemoveAt(player.hand, hand_idx),
                        !.bench[Unwrap(slot) + 1] =
                            Some(PlayedCard_new(player.hand[hand_idx + 1], s.turn_number))]),
                 Continue)
       ELSE Step(s, InvalidAction)

apply_setup_action(s, action) ==
    LET cp == s.current_player
        player == s.players[cp]
    IN CASE action.kind = "PlaceActive" ->
              IF action.a >= Len(player.hand) THEN Step(s, InvalidAction)
              ELSE Step(SetPlayer(s, cp,
                           [player EXCEPT
                               !.hand = RemoveAt(player.hand, action.a),
                               !.active = Some(PlayedCard_new(player.hand[action.a + 1],
                                                              s.turn_number))]),
                        Continue)
         [] action.kind = "PlaceBench" -> PlaceOnBench(s, action.a)
         [] action.kind = "ConfirmSetup" ->
              IF cp = 0 THEN Step([s EXCEPT !.current_player = 1], Continue)
              ELSE Step(draw_card([s EXCEPT !.current_player = 0,
                                            !.phase = "Main",
                                            !.first_turn = TRUE]),
                        Continue)
         [] OTHER -> Step(s, InvalidAction)

\* an evolution that comes into play without the damage of the old Pokemon
EvolvePokemon_fresh(s, hand_idx, board_pos) ==
    LET cp == s.current_player
        player == s.players[cp]
    IN IF hand_idx >= Len(player.hand) \/ IsNone(get_pokemon(player, board_pos))
       THEN Step(s, InvalidAction)
       ELSE Step(SetPlayer(s, cp,
                    SetPokemon([player EXCEPT !.hand = RemoveAt(player.hand, hand_idx)],
                               board_pos,
                               [PlayedCard_new(player.hand[hand_idx + 1], s.turn_number) EXCEPT
                                   !.attached_energy = Unwrap(get_pokemon(player, board_pos)).attached_energy,
                                   !.evolved_from = get_pokemon(player, board_pos)])),
                 Continue)

EvolvePokemon(s, hand_idx, board_pos) ==
    LET cp == s.current_player
        player == s.players[cp]
    IN IF hand_idx >= Len(player.hand) THEN Step(s, InvalidAction)
       ELSE LET evo_card == player.hand[hand_idx + 1]
                p1 == [player EXCEPT !.hand = RemoveAt(player.hand, hand_idx)]
                old == get_pokemon(p1, board_pos)
            IN IF IsSome(old)
               THEN LET old_pokemon == Unwrap(old)
                        new == [PlayedCard_new(evo_card, s.turn_number) EXCEPT
                                   !.attached_energy = old_pokemon.attached_energy,
                                   !.damage_counters = old_pokemon.damage_counters,
                                   !.evolved_from = Some(old_pokemon)]
                    IN Step(SetPlayer(s, cp, SetPokemon(p1, board_pos, clear_status(new))),
                            Continue)
               ELSE Step(SetPlayer(s, cp, p1), InvalidAction)

AttachEnergy_unmarked(s, board_pos) ==
    LET cp == s.current_player
        player == s.players[cp]
        target == get_pokemon(player, board_pos)
    IN IF player.energy_generated THEN Step(s, InvalidAction)
       ELSE IF IsNone(player.energy_zone_type) THEN Step(s, InvalidAction)
       ELSE IF IsNone(target) THEN Step(s, InvalidAction)
       ELSE Step(SetPlayer(s, cp,
                    SetPokemon(player, board_pos,
                               PushEnergy(Unwrap(target), Unwrap(player.energy_zone_type), 1))),
                 Continue)

AttachEnergy(s, board_pos) ==
    LET cp == s.current_player
        player == s.players[cp]
        target == get_pokemon(player, board_pos)
    IN IF player.energy_generated THEN Step(s, InvalidAction)
       ELSE IF IsNone(player.energy_zone_type) THEN Step(s, InvalidAction)
       ELSE IF IsNone(target) THEN Step(s, InvalidAction)
       ELSE Step(SetPlayer(s, cp,
                    [SetPokemon(player, board_pos,
                                PushEnergy(Unwrap(target), Unwrap(player.energy_zone_type), 1))
                        EXCEPT !.energy_generated = TRUE]),
                 Continue)

retreat_cost(p) == IF IsSome(p.card.retreat_cost) THEN Unwrap(p.card.retreat_cost) ELSE 0

Retreat_unmarked(s, bench_idx) ==
    LET player == current(s)
    IN IF bench_idx >= MAX_BENCH \/ IsNone(player.bench[bench_idx + 1])
       THEN Step(s, InvalidAction)
       ELSE Step([s EXCEPT
                    !.players[s.current_player].active = player.bench[bench_idx + 1],
                    !.players[s.current_player].bench[bench_idx + 1] =
                        OptMap(player.active, clear_status)],
                 Continue)

\* a retreat that costs no energy
Retreat_free(s, bench_idx) ==
    LET player == current(s)
    IN IF player.retreated_this_turn THEN Step(s, InvalidAction)
       ELSE IF bench_idx >= MAX_BENCH \/ IsNone(player.bench[bench_idx + 1])
       THEN Step(s, InvalidAction)
       ELSE IF /\ IsSome(player.active)
               /\ Len(Unwrap(player.active).attached_energy) < retreat_cost(Unwrap(player.active))
       THEN Step(s, InvalidAction)
       ELSE Step([s EXCEPT
                    !.players[s.current_player].active = player.bench[bench_idx + 1],
                    !.players[s.current_player].bench[bench_idx + 1] =
                        OptMap(player.active, clear_status),
                    !.players[s.current_player].retreated_this_turn = TRUE],
                 Continue)

Retreat(s, bench_idx) ==
    LET player == current(s)
    IN IF player.retreated_this_turn THEN Step(s, InvalidAction)
       ELSE IF bench_idx >= MAX_BENCH \/ IsNone(player.bench[bench_idx + 1])
       THEN Step(s, InvalidAction)
       ELSE IF /\ IsSome(player.active)
               /\ Len(Unwrap(player.active).attached_energy) < retreat_cost(Unwrap(player.active))
       THEN Step(s, InvalidAction)
       ELSE Step([s EXCEPT
                    !.players[s.current_player].active = player.bench[bench_idx + 1],
                    !.players[s.current_player].bench[bench_idx + 1] =
                        OptMap(player.active,
                               LAMBDA a : clear_status(PopEnergy(a, retreat_cost(a)))),
                    !.players[s.current_player].retreated_this_turn = TRUE],
                 Continue)

UseAbility(s, board_pos) ==
    IF IsNone(get_pokemon(current(s), board_pos)) THEN Step(s, Continue)
    ELSE Step(ExecuteAll(
                 SetPlayer(s, s.current_player,
                     SetPokemon(current(s), board_pos,
                         [Unwrap(get_pokemon(current(s), board_pos))
                            EXCEPT !.temp_flags.used_ability = TRUE])),
                 get_ability_effects(Unwrap(get_pokemon(current(s), board_pos)).card), {}),
              Continue)

\* a Tool goes on the active if it has none, else to the discard pile
AttachTool(player, card) ==
    IF IsSome(player.active) /\ IsNone(Unwrap(player.active).tool)
    THEN [player EXCEPT !.active = Some([Unwrap(@) EXCEPT !.tool = Some(card)])]
    ELSE [player EXCEPT !.discard = Append(@, card)]

\* the card leaves the hand
Played(player, hand_idx, as_supporter) ==
    [player EXCEPT !.hand = RemoveAt(@, hand_idx),
                   !.supporter_played = IF as_supporter THEN TRUE ELSE @]

\* PlayTrainer and PlaySupporter share their arm of apply_main_action
PlayCard(s, hand_idx, as_supporter) ==
    LET cp == s.current_player
        player == s.players[cp]
        card == player.hand[hand_idx + 1]
    IN IF hand_idx >= Len(player.hand) THEN Step(s, InvalidAction)
       ELSE IF card.card_type = "Tool"
       THEN Step(SetPlayer(s, cp, AttachTool(Played(player, hand_idx, as_supporter), card)),
                 Continue)
       ELSE LET done == ExecuteAll(
                            [s EXCEPT !.players[cp] =
                                [Played(player, hand_idx, as_supporter)
                                    EXCEPT !.discard = Append(@, card)]],
                            get_trainer_effects(card.id), {"EndTurn"})
            \* "if force_end_turn { self.end_turn(state) }"
            IN Step(IF HasKind(get_trainer_effects(card.id), "EndTurn") THEN end_turn(done)
                    ELSE done,
                    Continue)

SetZoneType(s, energy_type) ==
    Step([s EXCEPT !.players[s.current_player].energy_zone_type = Some(energy_type)], Continue)

\* UseAttack without the first-turn lock
AttackAnyTurn(s, attack_idx) == resolve_attack(s, attack_idx)

Attack(s, attack_idx) ==
    IF s.first_turn THEN Step(s, InvalidAction) ELSE resolve_attack(s, attack_idx)

PassTurn(s) == Step(end_turn(s), Continue)

apply_main_action(s, action) ==
    CASE action.kind = "PlayPokemonToBench" -> PlaceOnBench(s, action.a)
      [] action.kind = "EvolvePokemon" -> EvolvePokemon(s, action.a, action.b)
      [] action.kind = "SetEnergyZoneType" -> SetZoneType(s, action.e)
      [] action.kind = "AttachEnergy" -> AttachEnergy(s, action.a)
      [] action.kind = "Retreat" -> Retreat(s, action.a)
      [] action.kind = "UseAbility" -> UseAbility(s, action.a)
      [] action.kind = "PlayTrainer" -> PlayCard(s, action.a, FALSE)
      [] action.kind = "PlaySupporter" -> PlayCard(s, action.a, TRUE)
      [] action.kind = "UseAttack" -> Attack(s, action.a)
      [] action.kind = "EndTurn" -> PassTurn(s)
      [] OTHER -> Step(s, InvalidAction)

\* "player.active = player.bench[bench_idx].take()"
Promote(s, bench_idx) ==
    IF bench_idx < MAX_BENCH
    THEN [s EXCEPT !.players[s.current_player].active = current(s).bench[bench_idx + 1],
                   !.players[s.current_player].bench[bench_idx + 1] = None]
    ELSE s

\* the deferred end of turn without its two arms: always the full pipeline
FinishDeferredFull(s, d) ==
    IF IsNone(d) THEN [s EXCEPT !.phase = "Main"]
    ELSE end_turn([s EXCEPT !.current_player = Unwrap(d).player])

\* "match state.deferred_turn_end.take()": d is the value taken
FinishDeferred(s, d) ==
    IF IsNone(d) THEN [s EXCEPT !.phase = "Main"]
    ELSE IF Unwrap(d).kind = "NeedFullEndTurn"
    THEN end_turn([s EXCEPT !.current_player = Unwrap(d).player])
    ELSE complete_turn_switch([s EXCEPT !.current_player = Unwrap(d).player])

apply_effect_choice(s, action) ==
    IF s.pending_choice = Some("PromoteFromBench") /\ action.kind = "PromotePokemon"
    THEN Verdict(check_win_conditions(
            FinishDeferred([Promote(s, action.a) EXCEPT !.pending_choice = None,
                                                        !.deferred_turn_end = None],
                           s.deferred_turn_end)))
    ELSE Step(s, InvalidAction)

\* a dispatch that treats every phase other than Setup and EffectChoice as Main
apply_action_unphased(s, action) ==
    CASE s.phase = "Setup" -> apply_setup_action(s, action)
      [] s.phase = "EffectChoice" -> apply_effect_choice(s, action)
      [] OTHER -> apply_main_action(s, action)

apply_action(s, action) ==
    CASE s.phase = "Setup" -> apply_setup_action(s, action)
      [] s.phase = "Main" -> apply_main_action(s, action)
      [] s.phase = "EffectChoice" -> apply_effect_choice(s, action)
      [] OTHER -> Step(s, InvalidAction)

-----------------------------------------------------------------------------
(* The game as a state machine: a game is created by new_game and then     *)
(* driven by apply_action with actions taken from legal_actions.           *)

\* deck pairs the games start from
Scenario(k) ==
    CASE k = 1 -> <<<<"Pawn", "Pawn", "Raichu", "Raichu", "Raichu",
                      "Poison Barb", "Raichu", "Raichu", "Pawn">>,
                    <<"Raichu", "Pawn", "Raichu", "Pawn", "Pawn",
                      "Raichu", "Raichu", "Knight", "Raichu">>>>
      [] k = 2 -> <<<<"Pawn", "Pawn", "Raichu", "Raichu", "Raichu",
                      "Rocky Helmet", "Raichu", "Raichu", "Pawn">>,
                    <<"Raichu", "Pawn", "Raichu", "Pawn", "Pawn",
                      "Raichu", "Raichu", "Raichu", "Raichu">>>>
      [] k = 3 -> <<<<"Pawn", "Koga", "Raichu", "Raichu", "Raichu",
                      "Potion", "Raichu", "Kiawe", "Bishop">>,
                    <<"Raichu", "Pawn", "Raichu", "Raichu", "Raichu",
                      "Raichu", "Raichu", "Raichu", "Raichu">>>>
      [] k = 4 -> <<<<"Pawn", "Electrical Cord", "Raichu", "Raichu", "Raichu",
                      "Raichu", "Raichu", "Raichu", "King">>,
                    <<"Raichu", "Pawn", "Raichu", "Raichu", "Raichu",
                      "Raichu", "Raichu", "Raichu", "Raichu">>>>
      [] k = 5 -> <<<<"Pawn", "Raichu", "Raichu", "Raichu", "Raichu",
                      "Raichu", "Raichu", "Raichu", "Pawn", "Pawn">>,
                    <<"Raichu", "Raichu", "Pawn", "Raichu", "Raichu",
                      "Raichu", "Raichu", "Raichu", "Raichu">>>>
      [] k = 6 -> <<<<"Rook", "Raichu", "Raichu", "Raichu", "Raichu",
                      "Raichu", "Raichu", "Raichu", "Raichu", "Poison Barb">>,
                    <<"Pawn", "Raichu", "Pawn", "Raichu", "Raichu",
                      "Raichu", "Pawn", "Raichu", "Raichu">>>>
      [] k = 7 -> <<<<"Pawn", "Raichu", "Raichu", "Raichu", "Raichu",
                      "Raichu", "Raichu", "Raichu", "Raichu", "Raichu">>,
                    <<"Raichu", "Raichu", "Raichu", "Raichu", "Raichu",
                      "Raichu", "Pawn", "Raichu", "Rocky Helmet", "Raichu">>>>
      [] k = 8 -> <<<<"King", "Raichu", "Raichu", "Raichu", "Raichu",
                      "Raichu", "Raichu", "Raichu", "Queen">>,
                    <<"Raichu", "Pawn", "Raichu", "Raichu", "Raichu",
                      "Raichu", "Raichu", "Raichu", "Raichu">>>>
      [] k = 9 -> <<<<"Raichu", "Raichu", "Raichu", "Raichu",
                      "Raichu", "Raichu", "Pawn", "Raichu">>,
                    <<"Raichu", "Pawn", "Raichu", "Raichu",
                      "Raichu", "Raichu", "Raichu", "Raichu">>>>
      [] k = 10 -> <<<<"Pawn", "Pawn", "Raichu", "Raichu", "Raichu",
                       "Pawn", "Raichu", "Pawn", "Pawn">>,
                     <<"Raichu", "Pawn", "Raichu", "Raichu", "Raichu",
                       "Raichu", "Raichu", "Raichu", "Raichu">>>>
      [] k = 11 -> <<<<"Heavy Helmet", "Beast Wall", "Raichu", "Raichu", "Raichu",
                       "Raichu", "Raichu", "Raichu", "Bulbasaur">>,
                     <<"Raichu", "Charmander", "Raichu", "Eevee Bag", "Raichu",
                       "Raichu", "Raichu", "Raichu", "Raichu">>>>
      [] k = 12 -> <<<<"Pawn", "Raichu", "Raichu", "Raichu", "Raichu",
                       "Raichu", "Raichu", "Raichu", "Raichu", "Bulbasaur">>,
                     <<"Raichu", "Raichu", "Raichu", "Raichu", "Raichu",
                       "Raichu", "Charmander", "Raichu", "Beastite", "Raichu">>>>
      [] k = 13 -> <<<<"Will", "Raichu", "Raichu", "Raichu", "Raichu",
                       "Raichu", "Raichu", "Raichu", "Bulbasaur">>,
                     <<"Raichu", "Charmander", "Raichu", "Will", "Raichu",
                       "Raichu", "Raichu", "Raichu", "Raichu">>>>
      [] k = 14 -> <<<<"Charmander", "Raichu", "Raichu", "Raichu", "Raichu",
                       "Raichu", "Raichu", "Raichu", "Pawn", "Charmeleon">>,
                     <<"Raichu", "Raichu", "Ekans", "Raichu", "Raichu",
                       "Raichu", "Raichu", "Raichu", "Raichu">>>>
      [] OTHER -> <<<<"Pawn", "Raichu", "Raichu", "Raichu", "Raichu", "Raichu">>,
                    <<"Pawn", "Raichu", "Raichu", "Raichu", "Raichu", "Raichu">>>>

\* the cards of a deck list
Deck(ids) == [i \in 1..Len(ids) |-> Card(ids[i])]

\* g: what new_game returned
Start(g) ==
    /\ players = g.players
    /\ current_player = g.current_player
    /\ turn_number = g.turn_number
    /\ phase = g.phase
    /\ winner = g.winner
    /\ first_turn = g.first_turn
    /\ pending_choice = g.pending_choice
    /\ deferred_turn_end = g.deferred_turn_end
    /\ rng = g.rng
    /\ bt_runs = g.bt_runs
    /\ dealt = g.dealt
    /\ result = Continue

Init ==
    \E k \in 1..NumScenarios, seed \in 0..(NumSeeds - 1) :
        Start(new_game(Deck(Scenario(k)[1]), Deck(Scenario(k)[2]), seed))

\* the state after a step becomes the next state
Commit(st) ==
    /\ players' = st.s.players
    /\ current_player' = st.s.current_player
    /\ turn_number' = st.s.turn_number
    /\ phase' = st.s.phase
    /\ winner' = st.s.winner
    /\ first_turn' = st.s.first_turn
    /\ pending_choice' = st.s.pending_choice
    /\ deferred_turn_end' = st.s.deferred_turn_end
    /\ rng' = st.s.rng
    /\ bt_runs' = st.s.bt_runs
    /\ dealt' = dealt
    /\ result' = st.r

\* The driver plays legal actions only.  Each action below is one call of
\* apply_action with a legal action of one kind: the phase picks the handler
\* and the kind picks its arm, so the arm is applied directly.
Legal(kind) == {action \in legal_actions(S) : action.kind = kind}

PlaceActive ==
    phase = "Setup" /\ \E action \in Legal("PlaceActive") : Commit(apply_setup_action(S, action))
PlaceBench ==
    phase = "Setup" /\ \E action \in Legal("PlaceBench") : Commit(apply_setup_action(S, action))
ConfirmSetup ==
    phase = "Setup" /\ \E action \in Legal("ConfirmSetup") : Commit(apply_setup_action(S, action))
PlayPokemonToBench ==
    phase = "Main" /\ \E action \in Legal("PlayPokemonToBench") : Commit(PlaceOnBench(S, action.a))
Evolve ==
    phase = "Main"
    /\ \E action \in Legal("EvolvePokemon") : Commit(EvolvePokemon(S, action.a, action.b))
SetEnergyZoneType ==
    phase = "Main"
    /\ \E action \in Legal("SetEnergyZoneType") :
          action.e \in {"Fire"} /\ Commit(SetZoneType(S, action.e))
Attach ==
    phase = "Main" /\ \E action \in Legal("AttachEnergy") : Commit(AttachEnergy(S, action.a))
RetreatActive ==
    phase = "Main" /\ \E action \in Legal("Retreat") : Commit(Retreat(S, action.a))
Ability ==
    phase = "Main" /\ \E action \in Legal("UseAbility") : Commit(UseAbility(S, action.a))
PlayTrainer ==
    phase = "Main" /\ \E action \in Legal("PlayTrainer") : Commit(PlayCard(S, action.a, FALSE))
PlaySupporter ==
    phase = "Main" /\ \E action \in Legal("PlaySupporter") : Commit(PlayCard(S, action.a, TRUE))
UseAttack ==
    phase = "Main" /\ \E action \in Legal("UseAttack") : Commit(Attack(S, action.a))
EndTurn ==
    phase = "Main" /\ \E action \in Legal("EndTurn") : Commit(PassTurn(S))
PromotePokemon ==
    phase = "EffectChoice"
    /\ \E action \in Legal("PromotePokemon") : Commit(apply_effect_choice(S, action))

Next ==
    \/ PlaceActive
    \/ PlaceBench
    \/ ConfirmSetup
    \/ PlayPokemonToBench
    \/ Evolve
    \/ SetEnergyZoneType
    \/ Attach
    \/ RetreatActive
    \/ Ability
    \/ PlayTrainer
    \/ PlaySupporter
    \/ UseAttack
    \/ EndTurn
    \/ PromotePokemon

Spec == Init /\ [][Next]_vars

\* The driver keeps applying a legal action as long as the game is not over:
\* weak fairness of Next, with ENABLED <<Next>>_vars written as the state
\* predicate it amounts to (a game that is not over has a move, see Termination).
LiveSpec == Spec /\ ([]<>(phase = "GameOver") \/ []<><<Next>>_vars)

\* Games between two decks whose only Pokemon inflicts status conditions and
\* whose only other playable card is a tool that acts between turns: the
\* players set up, then fill the bench, attach the tool, attack or pass until
\* a deck runs out.
StatusGames ==
    LET deck1 == Deck(<<"Raichu", "Raichu", "Raichu", "Raichu", "Raichu", "Raichu", "Raichu",
                        "Jester", "Raichu", "Jester", "Leftovers">>)
        deck2 == Deck(<<"Raichu", "Raichu", "Raichu", "Raichu", "Jester", "Raichu", "Raichu",
                        "Raichu", "Raichu", "Raichu", "Lum Berry">>)
    IN \E seed \in 0..(NumSeeds - 1) : Start(new_game(deck1, deck2, seed))

StatusSpec ==
    StatusGames /\ [][PlaceActive \/ PlaceBench \/ ConfirmSetup \/ PlayPokemonToBench
                          \/ PlayTrainer \/ UseAttack \/ EndTurn]_vars

\* Full-size decks: Basics only, no Basic at all, and a single Basic at one
\* position among evolutions and tools.
SetupDeck(k) ==
    CASE k = 1 -> [i \in 1..DECK_SIZE |-> IF i % 7 = 3 THEN "King" ELSE "Pawn"]
      [] k = 2 -> [i \in 1..DECK_SIZE |-> IF i % 5 = 0 THEN "Rocky Helmet" ELSE "Raichu"]
      [] OTHER -> [i \in 1..DECK_SIZE |->
                      IF i = (((k - 3) * 7) % DECK_SIZE) + 1 THEN "Pawn"
                      ELSE IF i % 4 = 0 THEN "Poison Barb" ELSE "Raichu"]

\* Games between full-size decks, up to the end of the Setup phase.
SetupGames ==
    \E k1 \in 1..NumSetupDecks, k2 \in 1..NumSetupDecks, seed \in 0..(NumSetupSeeds - 1) :
        Start(new_game(Deck(SetupDeck(k1)), Deck(SetupDeck(k2)), seed))

SetupSpec == SetupGames /\ [][PlaceActive \/ PlaceBench \/ ConfirmSetup]_vars

\* A Basic whose single attack has the k-th energy cost of a list of costs
\* that mix specific and Colorless entries.
Duelist(k) ==
    Pokemon("Duelist", 90, "Basic", "Fire", None, 1,
            <<Atk(CASE k = 1 -> <<>>
                    [] k = 2 -> <<"Fire">>
                    [] k = 3 -> <<"Water">>
                    [] k = 4 -> <<"Colorless">>
                    [] k = 5 -> <<"Fire", "Fire">>
                    [] k = 6 -> <<"Fire", "Water">>
                    [] k = 7 -> <<"Water", "Colorless">>
                    [] k = 8 -> <<"Colorless", "Fire">>
                    [] k = 9 -> <<"Colorless", "Colorless">>
                    [] k = 10 -> <<"Water", "Water">>
                    [] k = 11 -> <<"Fire", "Water", "Colorless">>
                    [] k = 12 -> <<"Colorless", "Fire", "Fire">>
                    [] OTHER -> <<"Colorless", "Colorless", "Colorless">>,
                  0, "")>>,
            None, None, FALSE)

\* Games between two Duelists of one cost; the first player holds a Kiawe,
\* and each player takes Fire or Water as the type of the Energy Zone.
CostGames ==
    \E k \in 1..NumCosts :
        LET filler == [i \in 1..8 |-> Card("Raichu")]
        IN Start(new_game(<<Duelist(k)>> \o filler \o <<Card("Kiawe")>>,
                          SubSeq(filler, 1, 6) \o <<Duelist(k)>> \o SubSeq(filler, 1, 3),
                          0))

CostSpec ==
    CostGames
    /\ [][\/ PlaceActive
          \/ ConfirmSetup
          \/ (phase = "Main"
              /\ \E action \in Legal("SetEnergyZoneType") :
                    action.e \in {"Fire", "Water"} /\ Commit(SetZoneType(S, action.e)))
          \/ Attach
          \/ PlaySupporter
          \/ UseAttack
          \/ EndTurn]_vars

-----------------------------------------------------------------------------
(* Properties.                                                             *)

\* the step apply_action makes of the current state
Applied(action) == apply_action(S, action)

\* C1: an action is accepted by apply_action (the outcome is not
\* InvalidAction) if and only if legal_actions lists it.
LegalityClosure ==
    \A action \in ActionSpace :
        (Applied(action).r.kind # "InvalidAction") <=> (action \in legal_actions(S))

\* C2: a step that returns InvalidAction leaves the whole game state as it was.
NoPartialMutation ==
    \A action \in ActionSpace :
        Applied(action).r.kind = "InvalidAction" => Applied(action).s = S

\* C3: once Setup is over and the game is not over, each player has a
\* Pokemon in play and fewer than PRIZE_COUNT points.
WinDetectionComplete ==
    phase \in {"Main", "EffectChoice"} =>
        \A i \in {0, 1} : has_pokemon_in_play(players[i]) /\ players[i].points < PRIZE_COUNT

\* C4: there is a winner exactly in phase GameOver, and the winner w has
\* PRIZE_COUNT points, or the other player has no Pokemon in play, or the
\* other player was to draw from an empty deck.
WinDetectionSound ==
    /\ IsSome(winner) <=> phase = "GameOver"
    /\ IsSome(winner) =>
          \/ players[Unwrap(winner)].points >= PRIZE_COUNT
          \/ ~has_pokemon_in_play(players[1 - Unwrap(winner)])
          \/ /\ current_player = 1 - Unwrap(winner)
             /\ players[1 - Unwrap(winner)].deck = <<>>
    /\ result.kind = "GameOver" => result.winner = winner /\ phase = "GameOver"

\* C4 witnesses: a game lost by deck-out, the loser still having Pokemon in
\* play and the winner short of PRIZE_COUNT points
DeckOutReached ==
    /\ phase = "GameOver"
    /\ IsSome(winner)
    /\ players[Unwrap(winner)].points < PRIZE_COUNT
    /\ has_pokemon_in_play(players[1 - Unwrap(winner)])
    /\ players[1 - Unwrap(winner)].deck = <<>>

\* C5: every Pokemon in play has remaining_hp > 0.
NoKnockedOutInPlay ==
    \A i \in {0, 1} : \A pos \in all_pokemon(players[i]) :
        remaining_hp(Unwrap(get_pokemon(players[i], pos))) > 0

\* The claims below speak of one step: the state t that apply_action makes
\* of the current state with a legal action.

\* the step from s to t resolved a knockout of player i's active: the other
\* player was given the points for it
KnockedOutIn(s, t, i) == t.players[1 - i].points > s.players[1 - i].points

DeferredKind(s) == IF IsSome(s.deferred_turn_end) THEN Unwrap(s.deferred_turn_end).kind ELSE ""
DeferredPlayer(s) == IF IsSome(s.deferred_turn_end) THEN Unwrap(s.deferred_turn_end).player ELSE 2
\* the player whose turn it is: the one a deferred end of turn names, if any
DeferredOr(s) == IF IsSome(s.deferred_turn_end) THEN DeferredPlayer(s) ELSE s.current_player

\* an attack whose knockout of the defender asks the defender to choose
AttackNeedsChoice(s, t) ==
    /\ KnockedOutIn(s, t, 1 - s.current_player)
    /\ bench_count(s.players[1 - s.current_player]) >= 2
    /\ t.phase # "GameOver"

AttackDefers(s, t) ==
    AttackNeedsChoice(s, t) =>
        /\ t.phase = "EffectChoice"
        /\ t.pending_choice = Some("PromoteFromBench")
        /\ t.deferred_turn_end = Some(NeedFullEndTurn(s.current_player))
        /\ t.turn_number = s.turn_number
        /\ t.bt_runs = s.bt_runs

\* the turn of player A is over: the full pipeline ran and the turn switched
TurnEnded(s, t, A) ==
    /\ t.phase = "Main"
    /\ t.current_player = 1 - A
    /\ t.turn_number = s.turn_number + 1
    /\ t.bt_runs = s.bt_runs + 1
    /\ t.deferred_turn_end = None
    /\ t.pending_choice = None

\* the between-turns pass knocked out A's active and A has to choose
TurnParked(s, t, A) ==
    /\ t.phase = "EffectChoice"
    /\ t.current_player = A
    /\ t.turn_number = s.turn_number
    /\ t.bt_runs = s.bt_runs + 1
    /\ t.deferred_turn_end = Some(NeedTurnSwitch(A))
    /\ t.pending_choice = Some("PromoteFromBench")
    /\ KnockedOutIn(s, t, A)

\* C7 as claimed: an attack knockout that needs a promotion choice returns
\* Continue in EffectChoice with NeedFullEndTurn(A); the PromotePokemon that
\* answers it ends the step with player 1 - A to move, turn_number one
\* higher and phase Main, unless the game ended.
DeferredFullEndTurn ==
    /\ phase = "Main" =>
          \A action \in Legal("UseAttack") :
              /\ AttackDefers(S, Applied(action).s)
              /\ AttackNeedsChoice(S, Applied(action).s) => Applied(action).r = Continue
    /\ DeferredKind(S) = "NeedFullEndTurn" =>
          \A action \in Legal("PromotePokemon") :
              \/ Applied(action).s.phase = "GameOver"
              \/ TurnEnded(S, Applied(action).s, DeferredPlayer(S))

\* C7, amended: as above, but the between-turns pass of the deferred end of
\* turn may knock out A's active and leave the step in EffectChoice with
\* NeedTurnSwitch(A), player A to choose and the turn not yet advanced.
DeferredFullEndTurnOrParked ==
    /\ phase = "Main" =>
          \A action \in Legal("UseAttack") :
              /\ AttackDefers(S, Applied(action).s)
              /\ AttackNeedsChoice(S, Applied(action).s) => Applied(action).r = Continue
    /\ DeferredKind(S) = "NeedFullEndTurn" =>
          \A action \in Legal("PromotePokemon") :
              \/ Applied(action).s.phase = "GameOver"
              \/ TurnEnded(S, Applied(action).s, DeferredPlayer(S))
              \/ TurnParked(S, Applied(action).s, DeferredPlayer(S))

\* C7 witness: a promotion that answers an attack knockout and ends the
\* attacker's turn
DeferredEndTurnDone ==
    /\ DeferredKind(S) = "NeedFullEndTurn"
    /\ current_player # DeferredPlayer(S)
    /\ \E action \in Legal("PromotePokemon") :
          TurnEnded(S, Applied(action).s, DeferredPlayer(S))

\* C8: resolve_between_turns has run once for every turn that is over, and
\* once more when a between-turns knockout holds the turn switch back; a
\* step runs it at most once and advances turn_number by at most one, the
\* steps that end a turn run it exactly once, and the promotion after a
\* between-turns knockout switches the turn without running it again.
BetweenTurnsOncePerTurn ==
    /\ bt_runs = turn_number + (IF DeferredKind(S) = "NeedTurnSwitch" THEN 1 ELSE 0)
    /\ \A action \in legal_actions(S) :
          /\ Applied(action).s.turn_number - turn_number \in {0, 1}
          /\ Applied(action).s.bt_runs - bt_runs \in {0, 1}
          /\ Applied(action).s.turn_number = turn_number + 1 =>
                Applied(action).s.current_player = 1 - DeferredOr(S)
    /\ \A action \in Legal("EndTurn") : Applied(action).s.bt_runs = bt_runs + 1
    /\ \A action \in Legal("PlaySupporter") :
          HasKind(get_trainer_effects(current(S).hand[action.a + 1].id), "EndTurn") =>
              Applied(action).s.bt_runs = bt_runs + 1
    /\ DeferredKind(S) = "NeedTurnSwitch" =>
          \A action \in Legal("PromotePokemon") :
              /\ Applied(action).s.bt_runs = bt_runs
              /\ Applied(action).s.turn_number = turn_number + 1

\* C8 witness: a promotion after a between-turns knockout, about to switch
\* the turn
TurnSwitchTailDone ==
    /\ DeferredKind(S) = "NeedTurnSwitch"
    /\ \E action \in Legal("PromotePokemon") :
          /\ Applied(action).s.turn_number = turn_number + 1
          /\ Applied(action).s.bt_runs = bt_runs
          /\ Applied(action).s.phase = "Main"

\* the step from s to t knocked out player i's active while i had n Pokemon
\* on the bench, for some n in ns
KnockedOutWithBench(s, t, i, ns) ==
    /\ KnockedOutIn(s, t, i)
    /\ IsSome(s.players[i].active)
    /\ bench_count(s.players[i]) \in ns

\* the one occupied bench slot of a player with exactly one bench Pokemon
OnlyBenchSlot(pl) == CHOOSE b \in BenchSlots(pl) : TRUE

PointsFor(ko_pokemon) == IF ko_pokemon.card.is_ex THEN 2 ELSE 1

\* the energies the tool of a knocked-out Pokemon hands on (OnKOMoveEnergy)
EnergyHandedOn(ko_pokemon) ==
    SubSeq(ko_pokemon.attached_energy, 1,
           Min(MoveEnergyCount(ToolEffects(ko_pokemon), 0), Len(ko_pokemon.attached_energy)))

\* p is the Pokemon b with its energy, damage and status as they were
Unchanged(p, b) ==
    /\ p.card = b.card
    /\ p.attached_energy = b.attached_energy
    /\ p.damage_counters = b.damage_counters
    /\ p.status_conditions = b.status_conditions

PromotedFrom(p, b, ko_pokemon) ==
    Unchanged(p, [b EXCEPT !.attached_energy = b.attached_energy \o EnergyHandedOn(ko_pokemon)])

\* the end of turn waits for the other player i, knocked out in the same
\* step with two or more bench Pokemon, to choose
WaitsForChoiceOf(s, t, i) ==
    /\ KnockedOutWithBench(s, t, i, 2..MAX_BENCH)
    /\ t.pending_choice = Some("PromoteFromBench")
    /\ t.phase = "EffectChoice"
    /\ DeferredPlayer(t) = s.current_player
    /\ t.turn_number = s.turn_number

PromotionChoice ==
    \A action \in legal_actions(S) : \A i \in {0, 1} :
        /\ KnockedOutWithBench(S, Applied(action).s, i, 2..MAX_BENCH)
        /\ Applied(action).s.phase # "GameOver"
        =>  /\ Applied(action).s.phase = "EffectChoice"
            /\ Applied(action).s.pending_choice = Some("PromoteFromBench")
            /\ Applied(action).s.current_player = i
            /\ Applied(action).s.turn_number = turn_number
            /\ legal_actions(Applied(action).s)
                  = {Act("PromotePokemon", b, 0) :
                        b \in BenchSlots(Applied(action).s.players[i])}

\* the number of Pokemon cards in a pile
PokemonIn(pile) == Cardinality({k \in 1..Len(pile) : is_pokemon(pile[k])})

\* the step from s to t sent the active of player i to the discard pile
ActiveDiscarded(s, t, i) ==
    /\ IsSome(s.players[i].active)
    /\ PokemonIn(t.players[i].discard) = PokemonIn(s.players[i].discard) + 1
    /\ t.players[i].discard[Len(t.players[i].discard)] = Unwrap(s.players[i].active).card

\* the damage the tool of the Pokemon p strikes back with
RetaliationOf(p) == SumAmounts(ToolEffects(p), "RetaliationDamage", 0)

\* the attack from s to t knocked out the defender's active, and the
\* retaliation of the defender's tool knocked out the attacker's
RetaliationKnockedOut(s, t) ==
    /\ IsSome(current(s).active)
    /\ IsSome(opponent(s).active)
    /\ RetaliationOf(Unwrap(opponent(s).active)) > 0
    /\ remaining_hp(Unwrap(current(s).active)) <= RetaliationOf(Unwrap(opponent(s).active))
    /\ ActiveDiscarded(s, t, 1 - s.current_player)
    /\ ActiveDiscarded(s, t, s.current_player)

\* C11: an attack that knocks out the defender's active and, by the
\* retaliation of the defender's tool, the attacker's own active scores both
\* knockouts in that step (1 point, 2 for an EX, to the other side each), and
\* an attacker left without Pokemon loses at once: the defender is the
\* winner, whichever player attacks and whether or not the defender has a
\* bench (the defender having a card left to draw).
RetaliationKnockout ==
    phase = "Main" =>
        \A action \in Legal("UseAttack") :
            RetaliationKnockedOut(S, Applied(action).s) =>
                /\ Applied(action).s.players[current_player].points
                      = current(S).points + PointsFor(Unwrap(opponent(S).active))
                /\ Applied(action).s.players[1 - current_player].points
                      = opponent(S).points + PointsFor(Unwrap(current(S).active))
                /\ (bench_count(current(S)) = 0 /\ opponent(S).deck # <<>>) =>
                      /\ Applied(action).s.phase = "GameOver"
                      /\ Applied(action).s.winner = Some(1 - current_player)
                      /\ Applied(action).r = GameOver(1 - current_player)

\* C12: in every step the points of a player grow by 2 when the step knocks
\* out the other player's active and that Pokemon is an EX, by 1 when it
\* knocks out another active, and do not change otherwise; so points never
\* decrease.
Scoring ==
    \A action \in legal_actions(S) : \A i \in {0, 1} :
        /\ Applied(action).s.players[1 - i].points - players[1 - i].points
              = IF ActiveDiscarded(S, Applied(action).s, i)
                THEN (IF Unwrap(players[i].active).card.is_ex THEN 2 ELSE 1)
                ELSE 0
        /\ Applied(action).s.players[i].points >= players[i].points

\* C12 witness: the end of a turn about to knock out an EX active between
\* turns, for 2 points
ScoredBetweenTurns ==
    /\ phase = "Main"
    /\ IsSome(current(S).active)
    /\ Unwrap(current(S).active).card.is_ex
    /\ \E action \in Legal("EndTurn") :
          /\ ActiveDiscarded(S, Applied(action).s, current_player)
          /\ Applied(action).s.players[1 - current_player].points = opponent(S).points + 2

\* C13: each player's points stay within 0 .. PRIZE_COUNT.
PointsCapped == \A i \in {0, 1} : players[i].points \in 0..PRIZE_COUNT

\* C14: first_turn is true exactly while turn_number = 0; on turn 0 no
\* UseAttack is a legal action, whatever energy the active has, and
\* apply_action answers every UseAttack with InvalidAction; once false,
\* first_turn stays false and turn_number never goes back.
FirstTurnLock ==
    /\ first_turn <=> turn_number = 0
    /\ turn_number = 0 =>
          /\ \A action \in legal_actions(S) : action.kind # "UseAttack"
          /\ \A k \in 0..MaxIndex : Applied(Act("UseAttack", k, 0)).r = InvalidAction
    /\ \A action \in legal_actions(S) :
          /\ ~first_turn => ~Applied(action).s.first_turn
          /\ Applied(action).s.turn_number >= turn_number

\* C14 witness: turn 0 in Main, the active holding energy that pays for its
\* attack
AttackPaidOnFirstTurn ==
    /\ phase = "Main"
    /\ turn_number = 0
    /\ IsSome(current(S).active)
    /\ Unwrap(current(S).active).attached_energy # <<>>
    /\ can_use_attack(Unwrap(current(S).active).card, 0,
                      Unwrap(current(S).active).attached_energy)

\* the step from s to t had the player to move in t draw the turn-start
\* card: the turn switched, or Setup was completed
TurnStartDraw(s, t) ==
    \/ t.turn_number = s.turn_number + 1
    \/ s.phase = "Setup" /\ t.phase # "Setup"

\* C15: a step in which a player has to draw the turn-start card from an
\* empty deck draws nothing and ends with the game over, the other player
\* the winner and the phase GameOver, not Main.
DeckOut ==
    \A action \in legal_actions(S) :
        /\ TurnStartDraw(S, Applied(action).s)
        /\ players[Applied(action).s.current_player].deck = <<>>
        =>  /\ Applied(action).s.phase = "GameOver"
            /\ Applied(action).s.winner = Some(1 - Applied(action).s.current_player)
            /\ Applied(action).s.players[Applied(action).s.current_player].hand
                  = players[Applied(action).s.current_player].hand
            /\ Applied(action).s.players[Applied(action).s.current_player].deck = <<>>

\* C15 witness: player 1 about to complete Setup while player 0 has no card
\* to draw
DeckOutAtSetup ==
    /\ phase = "Setup"
    /\ current_player = 1
    /\ players[0].deck = <<>>
    /\ \E action \in Legal("ConfirmSetup") :
          /\ Applied(action).s.phase = "GameOver"
          /\ Applied(action).s.winner = Some(1)

\* the cards a Pokemon in play is made of: its card, its tool and the cards
\* of its pre-evolution chain
RECURSIVE CardsOf(_)
CardsOf(p) ==
    1 + (IF IsSome(p.tool) THEN 1 ELSE 0)
      + (IF IsSome(p.evolved_from) THEN CardsOf(Unwrap(p.evolved_from)) ELSE 0)

\* the cards of the Pokemon a player has in play at board positions pos ..
RECURSIVE CardsInPlay(_, _)
CardsInPlay(pl, pos) ==
    IF pos > Len(pl.bench) THEN 0
    ELSE (IF IsSome(get_pokemon(pl, pos)) THEN CardsOf(Unwrap(get_pokemon(pl, pos))) ELSE 0)
         + CardsInPlay(pl, pos + 1)

\* the cards a player owns
CardsOwned(pl) ==
    Len(pl.deck) + Len(pl.hand) + Len(pl.discard) + Len(pl.prizes) + CardsInPlay(pl, 0)

\* C16: a step that knocks out an active keeps every card in the game: each
\* player owns as many cards after the step as before it, counting deck,
\* hand, discard pile, prizes and the Pokemon in play with their tools and
\* pre-evolution chains.
KnockoutKeepsCards ==
    \A action \in legal_actions(S) :
        (\E i \in {0, 1} : ActiveDiscarded(S, Applied(action).s, i)) =>
            \A j \in {0, 1} : CardsOwned(Applied(action).s.players[j]) = CardsOwned(players[j])

\* hand indices of a player that hold a Basic Pokemon
BasicsInHand(pl) == {i \in 0..(Len(pl.hand) - 1) : is_basic_pokemon(pl.hand[i + 1])}

StatusApplied(p, q, status) ==
    /\ Contains(q, status)
    /\ \A o \in Statuses \ {status} :
          Contains(q, o) <=> (Contains(p, o) /\ ~(status \in ExclusiveStatuses /\ o \in ExclusiveStatuses))
    /\ \A k, l \in 1..Len(q) : q[k] = q[l] => k = l

\* C17: every Pokemon in play has at most one of Asleep, Confused and
\* Paralyzed and no status condition twice; applying Asleep, Confused or
\* Paralyzed to it removes the other two and keeps Poisoned and Burned,
\* applying Poisoned or Burned removes nothing, both in apply_status itself
\* and in an attack whose effect inflicts the status on the opponent's Active.
StatusExclusivity ==
    /\ \A i \in {0, 1} : \A pos \in all_pokemon(players[i]) :
          LET p == Unwrap(get_pokemon(players[i], pos))
          IN /\ Cardinality({k \in 1..Len(p.status_conditions) :
                                p.status_conditions[k] \in ExclusiveStatuses}) <= 1
             /\ \A k, l \in 1..Len(p.status_conditions) :
                   p.status_conditions[k] = p.status_conditions[l] => k = l
             /\ \A status \in Statuses :
                   StatusApplied(p.status_conditions,
                                 apply_status(p, status).status_conditions, status)
    /\ phase = "Main" =>
          \A action \in Legal("UseAttack") :
              LET effects == get_attack_effects(Unwrap(current(S).active).card, action.a)
              IN \A k \in 1..Len(effects) :
                    effects[k].kind = "ApplyStatus" /\ IsSome(opponent(S).active) =>
                        /\ IsSome(Applied(action).s.players[1 - current_player].active)
                        /\ StatusApplied(
                              Unwrap(opponent(S).active).status_conditions,
                              Unwrap(Applied(action).s.players[1 - current_player].active).status_conditions,
                              effects[k].status)

\* C17 witness: the opponent's Active is Poisoned and Asleep and the
\* attacker is about to make it Paralyzed
ExclusiveStatusReplaced ==
    /\ phase = "Main"
    /\ IsSome(opponent(S).active)
    /\ has_status(Unwrap(opponent(S).active), "Asleep")
    /\ has_status(Unwrap(opponent(S).active), "Poisoned")
    /\ \E action \in Legal("UseAttack") :
          /\ has_status(Unwrap(Applied(action).s.players[1 - current_player].active), "Paralyzed")
          /\ has_status(Unwrap(Applied(action).s.players[1 - current_player].active), "Poisoned")
          /\ ~has_status(Unwrap(Applied(action).s.players[1 - current_player].active), "Asleep")

\* the game new_game returns for the decks and the seed this game started with
Dealt == new_game(dealt.deck1, dealt.deck2, dealt.seed)

AllBasics(deck) == \A i \in 1..Len(deck) : is_basic_pokemon(deck[i])

\* scenario S1 is set up: both decks are 20 Basic Pokemon
S1Decks ==
    /\ Len(dealt.deck1) = DECK_SIZE /\ AllBasics(dealt.deck1)
    /\ Len(dealt.deck2) = DECK_SIZE /\ AllBasics(dealt.deck2)

\* the four steps of scenario S1 from the game as dealt
S1Steps ==
    LET a == apply_action(Dealt, Act("PlaceActive", 0, 0))
        b == apply_action(a.s, Act("ConfirmSetup", 0, 0))
        c == apply_action(b.s, Act("PlaceActive", 0, 0))
        d == apply_action(c.s, Act("ConfirmSetup", 0, 0))
    IN <<a, b, c, d>>

\* C19 as stated: after S1 the phase is Main, player 0 is to move, and both
\* players have 4 cards in hand, 8 in the deck and 3 prizes.
S1AsStated ==
    S1Decks =>
        /\ S1Steps[4].s.phase = "Main"
        /\ S1Steps[4].s.current_player = 0
        /\ \A i \in {0, 1} :
              /\ Len(S1Steps[4].s.players[i].hand) = 4
              /\ Len(S1Steps[4].s.players[i].deck) = 8
              /\ Len(S1Steps[4].s.players[i].prizes) = 3

\* C19 amended: every step of S1 is accepted, and after it the phase is Main,
\* player 0 is to move, player 0 has 5 cards in hand and 11 in the deck (the
\* first turn's draw is made), player 1 has 4 in hand and 12 in the deck, and
\* both have 3 prizes.
S1Outcome ==
    S1Decks =>
        /\ \A k \in 1..4 : S1Steps[k].r = Continue
        /\ S1Steps[4].s.phase = "Main"
        /\ S1Steps[4].s.current_player = 0
        /\ Len(S1Steps[4].s.players[0].hand) = 5
        /\ Len(S1Steps[4].s.players[0].deck) = 11
        /\ Len(S1Steps[4].s.players[1].hand) = 4
        /\ Len(S1Steps[4].s.players[1].deck) = 12
        /\ \A i \in {0, 1} : Len(S1Steps[4].s.players[i].prizes) = 3

\* C19 witness: a game between two decks of Basics has played the four steps
S1Played ==
    /\ S1Decks
    /\ phase = "Main"
    /\ players = S1Steps[4].s.players

Count(seq, c) == Cardinality({i \in 1..Len(seq) : seq[i] = c})

\* C20: new_game of two 20-card decks returns phase Setup, player 0 to move,
\* turn 0, and for each player 5 cards in hand, 3 prizes, 12 in the deck,
\* these 20 being the cards of the player's deck; at most 10 redeals were
\* made for each player, and a hand without a Basic means all 10 were made.
\* A game whose players are still as dealt is in that state.
NewGameDeal ==
    \A g \in {Dealt} :
        /\ g.phase = "Setup"
        /\ g.current_player = 0
        /\ g.turn_number = 0
        /\ \A i \in {0, 1} :
              LET pl == g.players[i]
                  deck == IF i = 0 THEN dealt.deck1 ELSE dealt.deck2
                  pile == pl.hand \o pl.prizes \o pl.deck
              IN Len(deck) = DECK_SIZE =>
                    /\ Len(pl.hand) = 5
                    /\ Len(pl.prizes) = 3
                    /\ Len(pl.deck) = 12
                    /\ \A k \in 1..Len(deck) : Count(pile, deck[k]) = Count(deck, deck[k])
                    /\ g.dealt.attempts[i] \in 0..10
                    /\ ~has_basic_in_hand(pl) => g.dealt.attempts[i] = 10
        /\ g.dealt = dealt
        /\ players = g.players =>
              phase = "Setup" /\ current_player = 0 /\ turn_number = 0

\* C20 witness: a game as dealt in which player 0 has no Basic after 10
\* redeals and player 1 found its only Basic after some, but not all, redeals
MulliganUsed ==
    /\ players = Dealt.players
    /\ dealt.attempts[0] = 10
    /\ ~has_basic_in_hand(players[0])
    /\ dealt.attempts[1] \in 1..9
    /\ has_basic_in_hand(players[1])
    /\ Count(dealt.deck2, Card("Pawn")) = 1

\* the player to act has a move that changes the state
HasMove ==
    \E action \in legal_actions(S) :
        /\ action.kind \in {"PlaceActive", "ConfirmSetup", "EndTurn", "PromotePokemon"}
        /\ Applied(action).s # S
Attacker == Unwrap(current(S).active)
Defender == Unwrap(opponent(S).active)
DefenderAfter(action) == Applied(action).s.players[1 - current_player].active
Duel == phase = "Main" /\ IsSome(current(S).active) /\ IsSome(opponent(S).active)
\* the attack is plain, and nothing but weakness modifies its damage
Unmodified(action) ==
    /\ Attacker.card.attacks[action.a + 1].effect = ""
    /\ Attacker.card.attacks[action.a + 1].damage > 0
    /\ Attacker.temp_flags.bonus_damage = 0 /\ IsNone(Attacker.tool)
    /\ Defender.temp_flags.prevent_damage_amount = 0 /\ IsNone(Defender.tool)
    /\ IsNone(Defender.card.ability)
Weak == IsSome(Defender.card.weakness) /\ Defender.card.weakness = Attacker.card.energy_type
\* the defender stays in play with n more damage counters, or is knocked out
Takes(action, n) ==
    IF (Defender.damage_counters + n) * 10 < max_hp(Defender)
    THEN /\ IsSome(DefenderAfter(action))
         /\ Unwrap(DefenderAfter(action)).card = Defender.card
         /\ Unwrap(DefenderAfter(action)).damage_counters = Defender.damage_counters + n
    ELSE \/ IsNone(DefenderAfter(action))
         \/ Unwrap(DefenderAfter(action)).card # Defender.card
         \/ Unwrap(DefenderAfter(action)).damage_counters < Defender.damage_counters + n

\* C22: an attack whose damage before modifiers is positive does exactly 20
\* more to a defender whose weakness is the attacker's energy type, and
\* nothing more to any other defender.
WeaknessBonus ==
    Duel => \A action \in Legal("UseAttack") :
                Unmodified(action) =>
                    Takes(action, (Attacker.card.attacks[action.a + 1].damage
                                   + (IF Weak THEN 20 ELSE 0)) \div 10)

\* C22 witness: a 30-damage Fire attacker is about to leave five damage
\* counters on an undamaged 60-HP defender that is weak to Fire
WeakDefenderStruck ==
    /\ Duel /\ Weak
    /\ Attacker.card.energy_type = Some("Fire")
    /\ max_hp(Defender) = 60 /\ Defender.damage_counters = 0
    /\ \E action \in Legal("UseAttack") :
          /\ Unmodified(action)
          /\ Attacker.card.attacks[action.a + 1].damage = 30
          /\ Unwrap(DefenderAfter(action)).damage_counters = 5

\* S: the damage of the attack as its effect shapes it; the attacks played
\* here are plain or do nothing on tails
Tails(action) ==
    /\ Attacker.card.attacks[action.a + 1].effect = "flip a coin, does nothing"
    /\ ~coin_flip(rng).v
Shaped(action) == IF Tails(action) THEN 0 ELSE Attacker.card.attacks[action.a + 1].damage
\* W: the weakness bonus
WeaknessOf(action) == IF Shaped(action) > 0 /\ Weak THEN 20 ELSE 0
\* B: the attacker's bonuses; the one tool that boosts damage is Beastite
Bonus ==
    Attacker.temp_flags.bonus_damage
    + (IF Attacker.tool = Some(Card("Beastite")) THEN 10 * current(S).points ELSE 0)
\* R: the defender's reductions; the one tool that reduces damage here is
\* Heavy Helmet, and no ability does
Reduction ==
    Defender.temp_flags.prevent_damage_amount
    + (IF Defender.tool = Some(Card("Heavy Helmet")) THEN 20 ELSE 0)
Piped(action) ==
    IF Shaped(action) + WeaknessOf(action) + Bonus > Reduction
    THEN (Shaped(action) + WeaknessOf(action) + Bonus - Reduction) \div 10
    ELSE 0
\* the benches as they are but for the flags a turn switch clears
Benches(s) ==
    [i \in 0..1 |-> [k \in 1..Len(s.players[i].bench) |->
                        OptMap(s.players[i].bench[k], clear_temp_flags)]]

\* C23: an attack adds floor(max(0, S + W + B - R) / 10) damage counters to
\* the defender's Active, never removes any, and, unless a Pokemon is knocked
\* out, changes no Pokemon on either bench.
DamagePipeline ==
    Duel => \A action \in Legal("UseAttack") :
               /\ IF Piped(action) > 0
                  THEN Takes(action, Piped(action))
                  ELSE /\ IsSome(DefenderAfter(action))
                       /\ Unwrap(DefenderAfter(action)).damage_counters
                             = Defender.damage_counters
               /\ (/\ (Defender.damage_counters + Piped(action)) * 10 < max_hp(Defender)
                   /\ ~is_knocked_out(Attacker)
                   /\ Defender.tool \notin {Some(Card("Rocky Helmet")), Some(Card("Poison Barb"))})
                      => Benches(Applied(action).s) = Benches(S)

\* C23 witness: weakness, a bonus and a reduction meet in one attack that
\* leaves damage counters on a defender that stays in play
BoostedAndReduced ==
    /\ Duel
    /\ Bonus > 0 /\ Reduction > 0
    /\ \E action \in Legal("UseAttack") :
          /\ WeaknessOf(action) = 20
          /\ Piped(action) > 0
          /\ IsSome(DefenderAfter(action))
          /\ Unwrap(DefenderAfter(action)).damage_counters
                = Defender.damage_counters + Piped(action)
\* the bonus of a tool that counts the attacker's points takes part too
PointsBoost ==
    /\ Duel
    /\ Attacker.tool = Some(Card("Beastite")) /\ current(S).points > 0
    /\ Legal("UseAttack") # {}

\* C24: an attack that does nothing on tails leaves, when the coin comes up
\* tails, the defender's Active with the damage counters it had, whatever
\* bonuses the attacker has.
TailsNoDamage ==
    Duel => \A action \in Legal("UseAttack") :
               Tails(action) =>
                  /\ IsSome(DefenderAfter(action))
                  /\ Unwrap(DefenderAfter(action)).damage_counters = Defender.damage_counters

\* the Pokemon in play
InPlay ==
    {p \in UNION {{players[i].active} \cup {players[i].bench[k] : k \in 1..MAX_BENCH} : i \in 0..1} :
        IsSome(p)}
\* how many entries of seq are e
Entries(seq, e) == Cardinality({i \in 1..Len(seq) : seq[i] = e})
\* every specific entry of the cost has an attached energy of its own, and
\* the energy left over covers the Colorless entries
Payable(cost, attached) ==
    /\ \A e \in ConcreteTypes : Entries(cost, e) <= Entries(attached, e)
    /\ Len(attached) - (Len(cost) - Entries(cost, "Colorless")) >= Entries(cost, "Colorless")

\* C25: can_use_attack(i, attached) is true exactly when attack i exists,
\* each specific entry of its cost is matched by a distinct attached energy of
\* that type, and the unmatched energy covers the Colorless entries; an attack
\* is offered to the player to act exactly when it can be used.
AttackCostRule ==
    /\ \A p \in InPlay : \A i \in 0..MaxIndex :
          can_use_attack(Unwrap(p).card, i, Unwrap(p).attached_energy)
            <=> /\ i < Len(Unwrap(p).card.attacks)
                /\ Payable(Unwrap(p).card.attacks[i + 1].energy_cost, Unwrap(p).attached_energy)
    /\ (phase = "Main" /\ ~first_turn /\ IsSome(current(S).active)) =>
          \A i \in 0..MaxIndex :
              (\E action \in Legal("UseAttack") : action.a = i)
                <=> can_use_attack(Attacker.card, i, Attacker.attached_energy)

\* C25 witness: the Water entry of a cost is paid with the Water energy and
\* its Colorless entry with a Fire energy
ColorlessPaidByFire ==
    /\ phase = "Main" /\ IsSome(current(S).active)
    /\ Attacker.card.attacks[1].energy_cost = <<"Water", "Colorless">>
    /\ Entries(Attacker.attached_energy, "Water") = 1
    /\ Entries(Attacker.attached_energy, "Fire") >= 1
    /\ \E action \in Legal("UseAttack") : action.a = 0
\* two Fire entries and a single Fire energy among the attached: no attack
OneFireForTwo ==
    /\ phase = "Main" /\ ~first_turn /\ IsSome(current(S).active)
    /\ Attacker.card.attacks[1].energy_cost = <<"Fire", "Fire">>
    /\ Entries(Attacker.attached_energy, "Fire") = 1
    /\ Legal("UseAttack") = {}

\* C26: the legal actions of a state have indices in 0..131 that
\* index_to_action turns back into them, no two of them share an index, every
\* index in 0..131 is the index of the action it stands for, and the indices
\* from 132 on stand for no action.
ActionIndexBijection ==
    /\ \A action \in legal_actions(S) :
          /\ action_to_index(action) \in 0..131
          /\ index_to_action(action_to_index(action)) = Some(action)
    /\ \A a1, a2 \in legal_actions(S) :
          action_to_index(a1) = action_to_index(a2) => a1 = a2
    /\ \A i \in 0..131 :
          /\ IsSome(index_to_action(i))
          /\ action_to_index(Unwrap(index_to_action(i))) = i
    /\ \A i \in 132..(ACTION_SPACE_SIZE - 1) : IsNone(index_to_action(i))

\* the current player's Pokemon at board position pos holds one more energy
\* of the zone type, and the energy of the turn is spent
Energized(pos) ==
    LET me == current(S)
        more(p) == [p EXCEPT !.attached_energy = Append(@, Unwrap(me.energy_zone_type))]
    IN [S EXCEPT !.players[current_player] =
          IF pos = 0
          THEN [me EXCEPT !.energy_generated = TRUE, !.active = Some(more(Unwrap(me.active)))]
          ELSE [me EXCEPT !.energy_generated = TRUE,
                          !.bench[pos] = Some(more(Unwrap(me.bench[pos])))]]

\* C27: AttachEnergy(pos) is accepted exactly when the player has not
\* attached this turn, has a zone type and has a Pokemon at pos; it then adds
\* one energy of the zone type to that Pokemon, sets energy_generated and
\* changes nothing else; otherwise it is an InvalidAction that changes nothing.
\* energy_generated stays set until the player's next turn starts.
OneEnergyPerTurn ==
    /\ phase = "Main" =>
          \A pos \in 0..MaxIndex :
              IF /\ ~current(S).energy_generated
                 /\ IsSome(current(S).energy_zone_type)
                 /\ \/ pos = 0 /\ IsSome(current(S).active)
                    \/ pos \in 1..MAX_BENCH /\ IsSome(current(S).bench[pos])
              THEN Applied(Act("AttachEnergy", pos, 0)) = Step(Energized(pos), Continue)
              ELSE Applied(Act("AttachEnergy", pos, 0)) = Step(S, InvalidAction)
    /\ \A i \in 0..1 :
          players[i].energy_generated =>
              \A action \in legal_actions(S) :
                  \/ Applied(action).s.players[i].energy_generated
                  \/ /\ Applied(action).s.turn_number > turn_number
                     /\ Applied(action).s.current_player = i

\* C27 witness: the player to act has attached the energy of this turn to
\* the Active, which could take another
SecondEnergyRefused ==
    /\ phase = "Main"
    /\ current(S).energy_generated /\ IsSome(current(S).energy_zone_type)
    /\ IsSome(current(S).active) /\ Attacker.attached_energy # <<>>
    /\ Applied(Act("AttachEnergy", 0, 0)).r = InvalidAction

\* the current player's Pokemon at a board position, before and after an action
Mine(pos) == Unwrap(get_pokemon(current(S), pos))
MineAfter(action, pos) == Unwrap(get_pokemon(Applied(action).s.players[current_player], pos))

\* C28: a Pokemon put into play or evolved on a turn carries that turn as
\* turn_played, and EvolvePokemon(h, pos) is legal only on a later turn, for a
\* hand card that evolves from the Pokemon at pos by one stage; so nothing
\* evolves on the turn it came into play, and nothing evolves on turn 0.
SummoningSickness ==
    /\ \A p \in InPlay : Unwrap(p).turn_played <= turn_number
    /\ phase = "Main" =>
          /\ \A action \in Legal("PlayPokemonToBench") :
                \E k \in 1..MAX_BENCH :
                    /\ IsNone(current(S).bench[k])
                    /\ MineAfter(action, k).card = current(S).hand[action.a + 1]
                    /\ MineAfter(action, k).turn_played = turn_number
          /\ \A action \in Legal("EvolvePokemon") :
                /\ turn_number > 0
                /\ IsSome(get_pokemon(current(S), action.b))
                /\ turn_number > Mine(action.b).turn_played
                /\ current(S).hand[action.a + 1].evolves_from = Some(Mine(action.b).card.name)
                /\ <<Mine(action.b).card.stage, current(S).hand[action.a + 1].stage>>
                      \in {<<Some("Basic"), Some("Stage1")>>, <<Some("Stage1"), Some("Stage2")>>}
                /\ MineAfter(action, action.b).card = current(S).hand[action.a + 1]
                /\ MineAfter(action, action.b).turn_played = turn_number
                /\ \A other \in Legal("EvolvePokemon") :
                      other.b = action.b =>
                          other \notin legal_actions(Applied(action).s)

\* C28 witness: the player holds an evolution of two of its Pokemon; the one
\* that came into play this turn is not offered, the other is and evolves
NewcomerWaits ==
    /\ phase = "Main"
    /\ \E action \in Legal("EvolvePokemon") :
          /\ MineAfter(action, action.b).turn_played = turn_number
          /\ \E pos \in all_pokemon(current(S)) :
                /\ Mine(pos).turn_played = turn_number
                /\ Some(Mine(pos).card.name) = current(S).hand[action.a + 1].evolves_from
                /\ Act("EvolvePokemon", action.a, pos) \notin legal_actions(S)

\* an attack that flips a coin for its damage
Flips(action) == Attacker.card.attacks[action.a + 1].effect = "flip a coin, does nothing"

\* C29: a guarantee of heads makes the next coin flip of the turn heads and
\* is used up by it; a guarantee no flip has used when the turn ends forces no
\* flip of a later turn: a coin flipped on a turn on which the player has
\* played no Supporter, so no guarantee, comes up as the random source has it.
GuaranteeEndsWithTurn ==
    Duel => \A action \in Legal("UseAttack") :
               Flips(action) =>
                  /\ ~Applied(action).s.rng.guaranteed_heads
                  /\ (rng.guaranteed_heads /\ current(S).supporter_played)
                        => Takes(action, Piped(action)) /\ Shaped(action) > 0
                  /\ (~current(S).supporter_played /\ StdRngNext(rng.x) < 8 /\ Bonus = 0)
                        => /\ IsSome(DefenderAfter(action))
                           /\ Unwrap(DefenderAfter(action)).damage_counters
                                 = Defender.damage_counters

\* the per-turn flags of a player, and the temp_flags of its Pokemon in play
PerTurn(pl) == <<pl.energy_generated, pl.supporter_played, pl.retreated_this_turn>>
TempFlags(pl) ==
    {Unwrap(p).temp_flags : p \in {q \in {pl.active} \cup {pl.bench[k] : k \in 1..MAX_BENCH} :
                                     IsSome(q)}}
\* the action ends with a turn switch
Switches(action) == Applied(action).s.turn_number # turn_number

Body(p) ==
    IF IsNone(p) THEN <<>>
    ELSE <<Unwrap(p).card.id, Unwrap(p).damage_counters, Unwrap(p).status_conditions,
           Unwrap(p).attached_energy, Unwrap(p).tool>>
Bodies(pl) == [k \in 1..Len(pl.bench) |-> Body(pl.bench[k])]

\* what the status checks make of the Active that ends its turn: the
\* counters added, the statuses kept, and the generator after the flips
Ending == Unwrap(current(S).active)
BurnToss == coin_flip(S.rng)
SleepToss == coin_flip(IF has_status(Ending, "Burned") THEN BurnToss.rng ELSE S.rng)
Added ==
    (IF has_status(Ending, "Poisoned") THEN 1 ELSE 0)
    + (IF has_status(Ending, "Burned") /\ ~BurnToss.v THEN 2 ELSE 0)
Healed ==
    IF IsSome(Ending.tool) /\ Unwrap(Ending.tool).id = "Leftovers"
    THEN Min(1, Ending.damage_counters + Added) ELSE 0
Cured == IF IsSome(Ending.tool) /\ Unwrap(Ending.tool).id = "Lum Berry" THEN Statuses ELSE {}
Shed ==
    {"Paralyzed"} \cup Cured
    \cup (IF has_status(Ending, "Asleep") /\ SleepToss.v THEN {"Asleep"} ELSE {})
Rested ==
    [Ending EXCEPT !.damage_counters = @ + Added - Healed,
                   !.status_conditions = Retain(@, Statuses \ Shed)]

\* C31: when a turn ends, the status checks touch the Active of the player
\* ending it and nothing else: Poisoned adds one counter, Burned two on tails,
\* Asleep goes on heads, Paralyzed always goes, then the tool heals or cures,
\* and only the result of all that is tested for a knockout; so a Pokemon is
\* Paralyzed when its owner's turn starts after the attack that paralysed it
\* and no longer when that turn has ended.
BetweenTurnsStatus ==
    phase = "Main" /\ IsSome(current(S).active) =>
      /\ \A action \in Legal("UseAttack") :
            LET after == Applied(action).s
            IN Ending.card.attacks[action.a + 1].effect = "is now paralyzed"
               /\ after.phase = "Main"
               => /\ after.current_player = 1 - current_player
                  /\ has_status(Unwrap(after.players[1 - current_player].active), "Paralyzed")
      /\ \A action \in Legal("EndTurn") :
            LET after == Applied(action).s
                mine == after.players[current_player]
                theirs == after.players[1 - current_player]
            IN /\ IF Rested.damage_counters * 10 >= Unwrap(Rested.card.hp)
                  THEN Cardinality(all_pokemon(mine))
                         = Cardinality(all_pokemon(current(S))) - 1
                  ELSE mine.active = Some(Rested) /\ Bodies(mine) = Bodies(current(S))
               /\ Body(theirs.active) = Body(opponent(S).active)
               /\ Bodies(theirs) = Bodies(opponent(S))
               /\ IsSome(mine.active) => ~has_status(Unwrap(mine.active), "Paralyzed")

\* C31 witness: a Poisoned and Burned Active holding Leftovers ends its turn,
\* the flip is tails, the three counters added would knock it out and the one
\* healed keeps it in play
HealedBeforeKnockout ==
    /\ phase = "Main" /\ IsSome(current(S).active)
    /\ Legal("EndTurn") # {}
    /\ Added = 3 /\ Healed = 1
    /\ (Ending.damage_counters + Added) * 10 >= Unwrap(Ending.card.hp)
    /\ Rested.damage_counters * 10 < Unwrap(Rested.card.hp)
    /\ \E k \in 1..Len(current(S).bench) : IsSome(current(S).bench[k])

\* C32: an EvolvePokemon(h, pos) that apply_action accepts puts hand card h
\* at pos with the energy and the damage counters of the Pokemon it replaces,
\* no status condition, the current turn as turn_played and the replaced
\* Pokemon as evolved_from; the hand loses card h and nothing else changes.
EvolutionFrame ==
    phase = "Main" =>
        \A action \in ActionSpace :
            action.kind = "EvolvePokemon" /\ Applied(action).r.kind = "Continue" =>
                LET after == Applied(action).s
                    evolved == MineAfter(action, action.b)
                IN /\ action.a < Len(current(S).hand)
                   /\ IsSome(get_pokemon(current(S), action.b))
                   /\ evolved.card = current(S).hand[action.a + 1]
                   /\ evolved.attached_energy = Mine(action.b).attached_energy
                   /\ evolved.damage_counters = Mine(action.b).damage_counters
                   /\ evolved.status_conditions = <<>>
                   /\ evolved.turn_played = turn_number
                   /\ evolved.evolved_from = Some(Mine(action.b))
                   /\ after = [S EXCEPT
                                 !.players[current_player] =
                                     SetPokemon([@ EXCEPT !.hand = RemoveAt(@, action.a)],
                                                action.b, evolved)]

\* C32 witness: a Poisoned Active with an energy and a damage counter can evolve
EvolvesHurt ==
    /\ phase = "Main"
    /\ \E action \in Legal("EvolvePokemon") :
          /\ action.b = 0
          /\ Mine(0).attached_energy # <<>>
          /\ Mine(0).damage_counters > 0
          /\ Mine(0).status_conditions # <<>>

\* the Active once it has paid its retreat cost from the tail of its energy
\* list and lost its status conditions
Retreated(a) ==
    [a EXCEPT !.attached_energy = SubSeq(@, 1, Len(@) - retreat_cost(a)),
              !.status_conditions = <<>>]

\* C33: a Retreat(b) that apply_action accepts swaps the Active with the
\* Pokemon in bench slot b, takes the retreat cost off the tail of the
\* retreating Pokemon's energy, clears its status conditions, sets
\* retreated_this_turn and changes nothing else; Retreat is refused once
\* retreated_this_turn is set, for an empty or out-of-range slot and when the
\* Active has less energy than its retreat cost.
RetreatEffect ==
    \A action \in ActionSpace :
        action.kind = "Retreat" =>
            /\ Applied(action).r.kind # "InvalidAction" =>
                  /\ phase = "Main"
                  /\ action.a < MAX_BENCH
                  /\ IsSome(current(S).bench[action.a + 1])
                  /\ ~current(S).retreated_this_turn
                  /\ IsSome(current(S).active) =>
                        Len(Mine(0).attached_energy) >= retreat_cost(Mine(0))
                  /\ Applied(action).s =
                        [S EXCEPT
                           !.players[current_player] =
                               [@ EXCEPT
                                  !.active = current(S).bench[action.a + 1],
                                  !.bench[action.a + 1] =
                                      IF IsSome(current(S).active)
                                      THEN Some(Retreated(Mine(0))) ELSE None,
                                  !.retreated_this_turn = TRUE]]
            /\ (\/ current(S).retreated_this_turn
                \/ action.a >= MAX_BENCH
                \/ IsNone(current(S).bench[action.a + 1])
                \/ /\ IsSome(current(S).active)
                   /\ Len(Mine(0).attached_energy) < retreat_cost(Mine(0)))
               => Applied(action).r.kind = "InvalidAction" /\ Applied(action).s = S

\* C33 witness: an Active with a status condition and more energy than its
\* retreat cost can retreat
RetreatsWithChange ==
    /\ phase = "Main"
    /\ Legal("Retreat") # {}
    /\ Mine(0).status_conditions # <<>>
    /\ retreat_cost(Mine(0)) > 0
    /\ Len(Mine(0).attached_energy) > retreat_cost(Mine(0))

\* C34: when an attack whose effect is CantRetreat has hit the opponent's
\* Active and the opponent's turn starts with that Pokemon still Active, no
\* Retreat is among the legal actions and apply_action refuses every Retreat.
CantRetreatHonoured ==
    phase = "Main" /\ IsSome(current(S).active) =>
        \A action \in Legal("UseAttack") :
            LET after == Applied(action).s
            IN /\ HasKind(get_attack_effects(Attacker.card, action.a), "CantRetreat")
               /\ after.phase = "Main"
               /\ after.current_player = 1 - current_player
               /\ IsSome(after.players[1 - current_player].active)
               => \A retreat \in ActionSpace :
                     retreat.kind = "Retreat" =>
                        /\ retreat \notin legal_actions(after)
                        /\ apply_action(after, retreat).r.kind = "InvalidAction"

\* C35: while a promotion is pending, apply_action accepts PromotePokemon(b)
\* for the occupied bench slots b of the choosing player and nothing else:
\* the chosen Pokemon becomes the Active, its slot is emptied and the choice is
\* cleared; every other action is refused and changes nothing.
PromotionAnswer ==
    phase = "EffectChoice" /\ pending_choice = Some("PromoteFromBench") =>
        \A action \in ActionSpace :
            IF /\ action.kind = "PromotePokemon"
               /\ action.a < MAX_BENCH
               /\ IsSome(current(S).bench[action.a + 1])
            THEN /\ Applied(action).r.kind # "InvalidAction"
                 /\ Body(Applied(action).s.players[current_player].active)
                      = Body(current(S).bench[action.a + 1])
                 /\ IsNone(Applied(action).s.players[current_player].bench[action.a + 1])
                 /\ IsNone(Applied(action).s.pending_choice)
            ELSE Applied(action).r.kind = "InvalidAction" /\ Applied(action).s = S

\* C36: in phase GameOver there is no legal action and apply_action refuses
\* every action and leaves the state as it is, so the winner, the points, the
\* current player and the turn number stay; and a step that records a winner
\* ends in phase GameOver, whatever it calls after the winner is recorded.
GameOverAbsorbing ==
    /\ phase = "GameOver" =>
          /\ legal_actions(S) = {}
          /\ \A action \in ActionSpace :
                Applied(action).r.kind = "InvalidAction" /\ Applied(action).s = S
    /\ \A action \in legal_actions(S) :
          IsSome(Applied(action).s.winner) \/ Applied(action).r.kind = "GameOver"
          => Applied(action).s.phase = "GameOver"

\* C36 witness: a finished game in which the player to move has an Active, a
\* bench Pokemon and cards in hand
OverWithMovesLeft ==
    /\ phase = "GameOver"
    /\ IsSome(winner)
    /\ IsSome(current(S).active)
    /\ BenchSlots(current(S)) # {}
    /\ current(S).hand # <<>>

\* C37: while the game is not over, the phase is EffectChoice exactly when a
\* choice is pending; a deferred end of turn exists only together with a
\* pending promotion, and a pending promotion always has one; and in Main the
\* current player is the turn number's parity.
PhaseChoiceAgree ==
    /\ phase # "GameOver" => (phase = "EffectChoice" <=> IsSome(pending_choice))
    /\ IsSome(deferred_turn_end) => pending_choice = Some("PromoteFromBench")
    /\ IsSome(pending_choice) => IsSome(deferred_turn_end)
    /\ phase = "Main" => current_player = turn_number % 2

\* C37 witness: a promotion is pending for the player whose turn it is not,
\* after an attack knocked out that player's Active
ChoiceOffTurn ==
    /\ phase = "EffectChoice"
    /\ pending_choice = Some("PromoteFromBench")
    /\ current_player # turn_number % 2
    /\ IsSome(deferred_turn_end)
    /\ Unwrap(deferred_turn_end).kind = "NeedFullEndTurn"

\* C38: in Main every player with a Pokemon in play has an Active; a
\* promotion choice is answered for each side that needs one before play
\* resumes.
ActiveInMain ==
    phase = "Main" =>
        \A i \in {0, 1} : has_pokemon_in_play(players[i]) => IsSome(players[i].active)

\* C39: while the game is not over, legal_actions is not empty and
\* apply_action accepts each of its actions; EndTurn is legal in Main, some
\* PromotePokemon in EffectChoice, and PlaceActive or ConfirmSetup in Setup.
NoStuckState ==
    phase # "GameOver" =>
        /\ legal_actions(S) # {}
        /\ \A action \in legal_actions(S) : Applied(action).r.kind # "InvalidAction"
        /\ phase = "Main" => Legal("EndTurn") # {}
        /\ phase = "EffectChoice" => Legal("PromotePokemon") # {}
        /\ phase = "Setup" => Legal("PlaceActive") \cup Legal("ConfirmSetup") # {}

\* C40: a step returns GameOver with winner w exactly when it leaves the
\* game in phase GameOver with winner w, and Continue only when the game goes
\* on, whichever action ends the game.
StepOutcomeAgrees ==
    \A action \in legal_actions(S) :
        /\ Applied(action).r.kind = "GameOver" <=> Applied(action).s.phase = "GameOver"
        /\ Applied(action).r.kind = "GameOver" => Applied(action).r.winner = Applied(action).s.winner
        /\ Applied(action).r.kind = "Continue" => Applied(action).s.phase # "GameOver"
====
